---- MODULE Spec2Model ----
(***************************************************************************)
(* Model of modbus_web_monitor:                                            *)
(*   api.py            websocket_monitor (handshake), read_modbus,         *)
(*                     write_modbus, _autocorr, _estimate_period,          *)
(*                     anomaly_zscore, anomaly_stl                         *)
(*   monitor.py        run_monitor_session, _poll_registers,               *)
(*                     _handle_commands, _perform_writes                   *)
(*   modbus_client.py  ModbusTcpSession (lock, read, write), tcp_session   *)
(*   data_logger.py    SQLiteDataLogger, compute_z_score, get_data_logger, *)
(*                     reset_data_logger                                   *)
(* Specifications: Spec / FairSpec (one monitor session), RestSpec (the    *)
(* one-shot handlers), StoreSpec (concurrent calls of one logger),         *)
(* MonitorStoreSpec (a session, then a query), ScoreSpec (the scoring      *)
(* functions), LockSpec (a session with few inputs, under fairness),       *)
(* ExitSpec (a session whose client can go away), AnomalySpec (one call of *)
(* an anomaly handler), LoggerSpec (the process-wide data logger).         *)
(*                                                                         *)
(* Every action is one step of one asyncio task: the code that runs from   *)
(* the resumption of an await to the next await.  A message is put on the  *)
(* channel when send_json is called.  Intervals are in hundredths of a     *)
(* second; coil values are 0/1 (Python's False/True).                      *)
(***************************************************************************)
EXTENDS Integers, Sequences, FiniteSets, TLC

VARIABLES
    phase,      \* position of websocket_monitor / run_monitor_session
    config,     \* MonitorConfig built by the handshake
    logger,     \* SQLiteDataLogger built by reset_data_logger()
    devState,   \* ModbusTcpSession transport: "never", "open", "closed"
    mem,        \* registers of the device
    locked,     \* ModbusTcpSession._lock._locked
    waiters,    \* ModbusTcpSession._lock._waiters (FIFO)
    inCS,       \* duties inside an `async with self._lock` block
    stop,       \* stop_event
    pc,         \* position of each duty (task)
    cancelReq,  \* duties on which task.cancel() was called
    pIdx,       \* poll duty: index of the target being read
    payload,    \* poll duty: payload of the current cycle
    pTs,        \* poll duty: timestamp of the current cycle
    cWrites,    \* command duty: writes of the current write command
    cIdx,       \* command duty: index of the write being performed
    logJob,     \* records handed to asyncio.to_thread(_write_records)
    store,      \* rows of the readings table
    out,        \* messages put on the websocket, in order
    clock,      \* wall clock (advances at every reading of it)
    cycles,     \* poll cycles started
    received,   \* inbound messages consumed by the command duty
    wireOps,    \* number of device operations issued to the client
    cyc,        \* history of the current poll cycle
    cmdg,       \* history of the current write command
    lastAppend, \* the last log_readings call of the poll duty
    sess,       \* history of the session (handshake input, connect, shutdown)
    rest,       \* one-shot HTTP handlers (read_modbus, write_modbus) and their session
    db,         \* one SQLiteDataLogger instance and the calls made on it
    scorer,     \* a call of compute_z_score or _estimate_period
    chan,       \* the websocket connection as the server sees it
    anom,       \* a call of anomaly_zscore or anomaly_stl
    glob        \* _DATA_LOGGER, the database files and the sessions of the process

vars == <<phase, config, logger, devState, mem, locked, waiters, inCS, stop, pc,
          cancelReq, pIdx, payload, pTs, cWrites, cIdx, logJob, store, out, clock,
          cycles, received, wireOps, cyc, cmdg, lastAppend, sess, rest, db, scorer,
          chan, anom, glob>>

-----------------------------------------------------------------------------
(* Bounds of the model *)

\* timer expirations of the poll duty plus inbound messages of the command duty
MaxEvents == 2

\* calls made on one SQLiteDataLogger, each by its own coroutine with its own
\* worker thread, all of which can be in progress at the same time
MaxCalls == 3

\* length of the window of values handed to the scoring functions
MaxWindow == 5

(* Constants of the program *)

MinIntervalExcl == 5
MaxInterval == 6000
DefaultInterval == 100
MaxCount == 125

Duties == {"poll", "cmd"}
RegisterKinds == {"holding", "input", "coil", "discrete"}
WriteKinds == {"holding", "coil"}
ALLOWED_KINDS == {"holding", "input", "coil", "discrete"}
DEFAULT_KINDS == {"holding", "input"}

Min(a, b) == IF a < b THEN a ELSE b

-----------------------------------------------------------------------------
(* Inputs: targets, write operations, inbound messages *)

T_h0 == [kind |-> "holding", address |-> 0, count |-> 2]
T_c1 == [kind |-> "coil", address |-> 1, count |-> 1]
T_bad == [kind |-> "holding", address |-> 0, count |-> 0]

\* value is kept as a sequence; shape tells isinstance(value, list)
W_h == [kind |-> "holding", address |-> 0, shape |-> "scalar", value |-> <<7>>]
W_hl == [kind |-> "holding", address |-> 0, shape |-> "list", value |-> <<5, 6>>]
W_c == [kind |-> "coil", address |-> 1, shape |-> "scalar", value |-> <<1>>]

Msg(t, c, i, ts, ws) ==
    [type |-> t, hasConn |-> c, interval |-> i, targets |-> ts, writes |-> ws]

\* interval 0 stands for an absent (None) or zero interval: both are falsy
FirstMessages ==
    {Msg("ping", FALSE, 0, <<>>, <<>>),
     Msg("write", FALSE, 0, <<>>, <<W_h>>),
     Msg("malformed", FALSE, 0, <<>>, <<>>),
     Msg("configure", FALSE, 0, <<T_c1>>, <<>>),
     Msg("configure", TRUE, 0, <<>>, <<>>),
     Msg("configure", TRUE, 20, <<T_bad>>, <<>>),
     Msg("configure", TRUE, 5, <<T_c1>>, <<>>),
     Msg("configure", TRUE, 6001, <<T_c1>>, <<>>),
     Msg("configure", TRUE, 0, <<T_c1>>, <<>>),
     Msg("configure", TRUE, 20, <<T_h0, T_c1>>, <<>>)}

ActiveMessages ==
    {Msg("ping", FALSE, 0, <<>>, <<>>),
     Msg("malformed", FALSE, 0, <<>>, <<>>),
     Msg("configure", TRUE, 20, <<T_c1>>, <<>>),
     Msg("write", FALSE, 0, <<>>, <<>>),
     Msg("write", FALSE, 0, <<>>, <<W_h>>),
     Msg("write", FALSE, 0, <<>>, <<W_h, W_c, W_hl>>)}

LoggerConfigs ==
    {[enabled |-> TRUE, kinds |-> DEFAULT_KINDS],
     [enabled |-> FALSE, kinds |-> DEFAULT_KINDS]}

NoConfig == [interval |-> 0, targets |-> <<>>]
NoLogger == [enabled |-> FALSE, kinds |-> {}]
Connection == "dev1"

-----------------------------------------------------------------------------
(* schemas.py *)

ValidTarget(t) ==
    /\ t.kind \in RegisterKinds
    /\ t.address >= 0
    /\ t.count >= 1
    /\ t.count <= MaxCount

ValidWriteOp(w) == w.kind \in WriteKinds /\ w.address >= 0

\* json.loads + MonitorCommand.model_validate succeed
CommandValid(m) ==
    /\ m.type \in {"configure", "write", "ping"}
    /\ \A i \in 1..Len(m.targets) : ValidTarget(m.targets[i])
    /\ \A i \in 1..Len(m.writes) : ValidWriteOp(m.writes[i])
    /\ m.type = "configure" => (m.targets # <<>> /\ m.hasConn)
    /\ m.type = "write" => m.writes # <<>>

\* MonitorConfig(interval=..) validates
MonitorConfigValid(interval) == interval > MinIntervalExcl /\ interval <= MaxInterval

\* command.interval or 1.0
EffectiveInterval(m) == IF m.interval = 0 THEN DefaultInterval ELSE m.interval

-----------------------------------------------------------------------------
(* Outbound messages *)

OutMsg(t, s, ts, d) == [type |-> t, src |-> s, ts |-> ts, data |-> d]

Emit(m) == out' = Append(out, m)

CountType(t) == Cardinality({i \in 1..Len(out) : out[i].type = t})
CountFrom(t, s) == Cardinality({i \in 1..Len(out) : out[i].type = t /\ out[i].src = s})

-----------------------------------------------------------------------------
(* State after the websocket is accepted *)

InitMem == [k \in {<<"holding", 0>>, <<"holding", 1>>, <<"coil", 1>>} |-> 0]

\* seq0: the number of writes completed when the cycle started
NoCyc == [failed |-> FALSE, errors |-> 0, updates |-> 0, appends |-> 0, reads |-> 0,
          readsAtFail |-> 0, seq0 |-> 0]
NoCmd == [kind |-> "none", active |-> FALSE, issued |-> 0, applied |-> <<>>,
          failedAt |-> 0, errors |-> 0, acks |-> 0]
NoAppend == [source |-> "none", ts |-> 0, readings |-> <<>>, result |-> "none"]
NoJob == [state |-> "none", records |-> <<>>]
NoMsg == Msg("none", FALSE, 0, <<>>, <<>>)
\* writeSeq counts the completed writes of the command duty; lastWritten and
\* writtenAt give, per register, the value of the last of them and its number;
\* closeCalls counts the calls of session.close()
InitSess == [first |-> NoMsg, connect |-> "none",
             exhausted |-> FALSE, termDevState |-> "none", pendingAtWake |-> {},
             raisedAtWake |-> FALSE, closeCalls |-> 0, writeSeq |-> 0,
             lastWritten |-> [k \in DOMAIN InitMem |-> -1],
             writtenAt |-> [k \in DOMAIN InitMem |-> 0]]

\* a one-shot handler that has not been called; history: store0 is the store
\* when the handler was called, resps the responses its reads got, opError the
\* exception an operation raised, prims the client primitives its writes called,
\* wres what the client did with each of them, logTs and logResult the timestamp
\* and the end of its log_readings call, lastWritten the values given to
\* successful writes (-1: none)
NoClient == [connected |-> FALSE, protocol |-> "none", transport |-> "none"]
NoRest == [pc |-> "idle", op |-> "none", targets |-> <<>>, writes |-> <<>>, idx |-> 0,
           readings |-> <<>>, client |-> NoClient, transport |-> "never",
           locked |-> FALSE, pending |-> "none", status |-> 0, body |-> <<>>,
           ops |-> 0, logCalls |-> 0, closeCalls |-> 0, closeRaised |-> FALSE,
           requests |-> 0, store0 |-> <<>>, resps |-> <<>>, opError |-> "none",
           prims |-> <<>>, wres |-> <<>>, logTs |-> 0, logResult |-> "none",
           lastWritten |-> [k \in DOMAIN InitMem |-> -1]]

\* the coroutines that call the logger, in the order of their calls; a
\* coroutine that has not called yet.  History of a call: at is the number of
\* rows when its statement ran, schemaAtExec the number of committed schema
\* creations then (-1: no statement ran), picked the rows its SELECT returned
Callers == 1..MaxCalls
NoKey == [conn |-> "none", kind |-> "none", address |-> 0]
NoCall == [pc |-> "idle", op |-> "none", readings |-> <<>>, source |-> "none",
           ts |-> 0, recs |-> <<>>, key |-> NoKey, limit |-> 0, raised |-> FALSE,
           picked |-> <<>>, result |-> <<>>, at |-> 0, schemaAtExec |-> -1]

\* a logger nobody has used: _initialized, the holder of _init_lock (0: free),
\* the committed schema creations, the calls made, and the callers that have
\* called, in the order of their calls
NoDb == [initialized |-> FALSE, initLock |-> 0, created |-> 0, calls |-> 0,
         call |-> <<>>]

\* the connection is up and run_monitor_session has raised nothing
NoChan == [gone |-> FALSE, raised |-> "none"]

\* no anomaly handler was called
NoAnom == [pc |-> "idle"]

\* a process that has built no logger
NoGlob == [current |-> 0]

\* no scoring function was called
NoScore == [pc |-> "none", fn |-> "none", values |-> <<>>, minSamples |-> 0,
            result |-> <<>>]

Init ==
    /\ phase = "Idle"
    /\ config = NoConfig
    /\ logger = NoLogger
    /\ devState = "never"
    /\ mem = InitMem
    /\ locked = FALSE
    /\ waiters = <<>>
    /\ inCS = {}
    /\ stop = FALSE
    /\ pc = [d \in Duties |-> "none"]
    /\ cancelReq = {}
    /\ pIdx = 0
    /\ payload = <<>>
    /\ pTs = 0
    /\ cWrites = <<>>
    /\ cIdx = 0
    /\ logJob = NoJob
    /\ store = <<>>
    /\ out = <<>>
    /\ clock = 1
    /\ cycles = 0
    /\ received = 0
    /\ wireOps = 0
    /\ cyc = NoCyc
    /\ cmdg = NoCmd
    /\ lastAppend = NoAppend
    /\ sess = InitSess
    /\ rest = NoRest
    /\ db = NoDb
    /\ chan = NoChan
    /\ anom = NoAnom
    /\ glob = NoGlob
    /\ scorer = NoScore

sessionVars == <<logger, devState, mem, locked, waiters, inCS, stop, pc, cancelReq,
                 pIdx, payload, pTs, cWrites, cIdx, logJob, store, clock, cycles,
                 received, wireOps, cyc, cmdg, lastAppend>>

-----------------------------------------------------------------------------
(* api.py: websocket_monitor *)

\* faulty variant: the `command.type != "configure"` test is missing
FirstMessageAccepted_NoTypeCheck(m) ==
    /\ CommandValid(m)
    /\ MonitorConfigValid(EffectiveInterval(m))

\* the first message passes every check of the handshake
FirstMessageAccepted(m) ==
    /\ CommandValid(m)
    /\ m.type = "configure"
    /\ MonitorConfigValid(EffectiveInterval(m))

Handshake(m) ==
    /\ phase = "Idle"
    /\ IF FirstMessageAccepted(m)
       THEN /\ config' = [interval |-> EffectiveInterval(m), targets |-> m.targets]
            /\ Emit(OutMsg("status", "handshake", 0, <<>>))
            /\ phase' = "Configured"
       ELSE \* `type != configure`, or the except branch: one error, close, return
            /\ Emit(OutMsg("error", "handshake", 0, <<>>))
            /\ phase' = "Closed"
            /\ UNCHANGED config
    /\ sess' = [sess EXCEPT !.first = m]
    /\ UNCHANGED sessionVars
    /\ UNCHANGED <<rest, db, scorer, chan, anom, glob>>


-----------------------------------------------------------------------------
(* modbus_client.py: the session lock (asyncio.Lock) *)

CurLock == [locked |-> locked, waiters |-> waiters, inCS |-> inCS]

\* faulty variant: acquire without testing or queueing (no mutual exclusion)
TryAcquire_NoLock(L, d) == [L EXCEPT !.locked = TRUE, !.inCS = @ \cup {d}]

\* Lock.acquire(): taken at once when free and nobody waits, else the caller queues
TryAcquire(L, d) ==
    IF ~L.locked /\ L.waiters = <<>>
    THEN [L EXCEPT !.locked = TRUE, !.inCS = @ \cup {d}]
    ELSE [L EXCEPT !.waiters = Append(@, d)]

\* Lock.release() on leaving the `async with` block
Release(L, d) == [L EXCEPT !.locked = FALSE, !.inCS = @ \ {d}]

\* a queued caller is woken: it is the first waiter and the lock is free
CanGrant(L, d) == ~L.locked /\ L.waiters # <<>> /\ Head(L.waiters) = d

Grant(L, d) == [L EXCEPT !.locked = TRUE, !.waiters = Tail(@), !.inCS = @ \cup {d}]

RemoveWaiter(ws, d) == SelectSeq(ws, LAMBDA x : x # d)

SetLock(L) == locked' = L.locked /\ waiters' = L.waiters /\ inCS' = L.inCS

\* duties whose read or write has been handed to the client and has not returned
InFlight == {d \in Duties : pc[d] \in {"read_io", "write_io"}}

-----------------------------------------------------------------------------
(* modbus_client.py: the device as seen through the client *)

RECURSIVE MemSlice(_, _, _, _)
MemSlice(m, kind, address, count) ==
    IF count = 0 THEN <<>>
    ELSE <<m[<<kind, address>>]>> \o MemSlice(m, kind, address + 1, count - 1)

\* what the client does with a read: a response with count values, with more
\* (coils come padded to whole bytes), with fewer, an exception response, a
\* response with neither registers nor bits, a ModbusException, another exception
ReadOutcomes == {"ok", "padded", "short", "errresp", "noshape", "modbus", "other"}

\* the reads of the poll duty: a short response changes only the length of the
\* values of an entry, which the one-shot read covers
PollReadOutcomes == ReadOutcomes \ {"short"}
WriteOutcomes == {"ok", "errresp", "modbus", "other"}

\* the response object the client returns for a read
ReadResponse(m, t, o) ==
    [isError |-> (o = "errresp"),
     shape |-> IF o = "noshape" THEN "none"
               ELSE IF t.kind \in {"holding", "input"} THEN "registers" ELSE "bits",
     data |-> IF o \in {"errresp", "noshape"} THEN <<>>
              ELSE IF o = "padded" THEN MemSlice(m, t.kind, t.address, t.count) \o <<0>>
              ELSE IF o = "short" THEN MemSlice(m, t.kind, t.address, t.count - 1)
              ELSE MemSlice(m, t.kind, t.address, t.count)]

\* faulty variant: the [:expected] slice is missing
ExtractValues_NoTrim(resp, expected) ==
    IF resp.isError THEN [ok |-> FALSE, values |-> <<>>]
    ELSE IF resp.shape \notin {"registers", "bits"} THEN [ok |-> FALSE, values |-> <<>>]
    ELSE [ok |-> TRUE, values |-> resp.data]

\* _extract_values: ok = FALSE stands for raising ModbusOperationError
ExtractValues(resp, expected) ==
    IF resp.isError THEN [ok |-> FALSE, values |-> <<>>]
    ELSE IF resp.shape \notin {"registers", "bits"} THEN [ok |-> FALSE, values |-> <<>>]
    ELSE [ok |-> TRUE, values |-> SubSeq(resp.data, 1, Min(expected, Len(resp.data)))]

\* faulty variant: bool(value) is used for registers as well
CoerceValue_AlwaysBool(kind, v) == IF v # 0 THEN 1 ELSE 0

\* bool(v) for a coil, int(v) for a register
CoerceValue(kind, v) == IF kind = "coil" THEN (IF v # 0 THEN 1 ELSE 0) ELSE v

\* faulty variant: the isinstance(value, list) test is missing, a list is
\* written with the single-value primitive and only its first value arrives
ApplyWrite_FirstOnly(m, w) ==
    [k \in DOMAIN m |->
        IF k[1] = w.kind /\ k[2] = w.address
        THEN CoerceValue(w.kind, w.value[1])
        ELSE m[k]]

\* the registers after the device applied a write
ApplyWrite(m, w) ==
    [k \in DOMAIN m |->
        IF k[1] = w.kind /\ k[2] >= w.address /\ k[2] < w.address + Len(w.value)
        THEN CoerceValue(w.kind, w.value[k[2] - w.address + 1])
        ELSE m[k]]

\* the values given to the addresses a successful write covers
NoteWrite(lw, w) ==
    [k \in DOMAIN lw |->
        IF k[1] = w.kind /\ k[2] >= w.address /\ k[2] < w.address + Len(w.value)
        THEN w.value[k[2] - w.address + 1]
        ELSE lw[k]]

\* faulty variant: the isinstance(value, list) test of the coil branch is missing
WritePrimitive_CoilSingle(w) ==
    IF w.kind = "holding"
    THEN (IF w.shape = "list" THEN "write_registers" ELSE "write_register")
    ELSE "write_coil"

\* the client primitive ModbusTcpSession.write picks
WritePrimitive(w) ==
    IF w.kind = "holding"
    THEN (IF w.shape = "list" THEN "write_registers" ELSE "write_register")
    ELSE (IF w.shape = "list" THEN "write_coils" ELSE "write_coil")

-----------------------------------------------------------------------------
(* data_logger.py: SQLiteDataLogger.log_readings *)

Row(ts, source, kind, address, value) ==
    [timestamp |-> ts, source |-> source, conn |-> Connection, kind |-> kind,
     address |-> address, value |-> value]

\* faulty variant: every row of a reading gets its base address
ReadingRows_BaseAddress(reading, offset, source, ts) ==
    [i \in 1..(Len(reading.values) - offset + 1) |->
        Row(ts, source, reading.kind, reading.address,
            reading.values[offset + i - 1])]

RECURSIVE ReadingRows(_, _, _, _)
ReadingRows(reading, offset, source, ts) ==
    IF offset > Len(reading.values) THEN <<>>
    ELSE <<Row(ts, source, reading.kind, reading.address + offset - 1,
               reading.values[offset])>>
         \o ReadingRows(reading, offset + 1, source, ts)

RECURSIVE RecordsFrom(_, _, _, _, _)
RecordsFrom(kinds, readings, i, source, ts) ==
    IF i > Len(readings) THEN <<>>
    ELSE (IF readings[i].kind \in kinds
          THEN ReadingRows(readings[i], 1, source, ts)
          ELSE <<>>)
         \o RecordsFrom(kinds, readings, i + 1, source, ts)

\* faulty variant: the test of self.enabled is missing
LogRecords_IgnoreEnabled(lg, readings, source, ts) ==
    IF readings = <<>> THEN <<>>
    ELSE RecordsFrom(lg.kinds, readings, 1, source, ts)

\* the records log_readings hands to _write_records (<<>>: it returns early)
LogRecords(lg, readings, source, ts) ==
    IF ~lg.enabled THEN <<>>
    ELSE IF readings = <<>> THEN <<>>
    ELSE RecordsFrom(lg.kinds, readings, 1, source, ts)

\* _write_records on the worker thread: one committed batch, or a failure
WriteRecords ==
    /\ logJob.state = "pending"
    /\ \E r \in {"ok", "err"} :
         /\ logJob' = [logJob EXCEPT !.state = r]
         /\ store' = IF r = "ok" THEN store \o logJob.records ELSE store
    /\ UNCHANGED <<phase, config, logger, devState, mem, locked, waiters, inCS, stop,
                   pc, cancelReq, pIdx, payload, pTs, cWrites, cIdx, out, clock,
                   cycles, received, wireOps, cyc, cmdg, lastAppend, sess>>
    /\ UNCHANGED <<rest, db, scorer, chan, anom, glob>>


-----------------------------------------------------------------------------
(* monitor.py: run_monitor_session up to the creation of the two duties *)

lockVars == <<locked, waiters, inCS>>
pollLocals == <<pIdx, payload, pTs>>
cmdLocals == <<cWrites, cIdx>>
storeVars == <<logJob, store>>

\* reset_data_logger() builds the logger from the environment, then
\* tcp_session() constructs the session and awaits session.connect()
StartSession ==
    /\ phase = "Configured"
    /\ \E lg \in LoggerConfigs : logger' = lg
    /\ phase' = "Connecting"
    /\ UNCHANGED <<config, devState, mem, lockVars, stop, pc, cancelReq, pollLocals,
                   cmdLocals, storeVars, out, clock, cycles, received, wireOps, cyc,
                   cmdg, lastAppend, sess>>
    /\ UNCHANGED <<rest, db, scorer, chan, anom, glob>>

\* faulty variant: connect never raises
ConnectRaises_Never(connected) == FALSE

\* ModbusTcpSession.connect raises ModbusConnectionError
ConnectRaises(connected) == ~connected

\* faulty variant: connect is called inside the try of tcp_session, so a failed
\* connect is followed by close
ConnectDone_InsideTry ==
    /\ phase = "Connecting"
    /\ \E connected \in BOOLEAN :
         /\ IF ~ConnectRaises(connected)
            THEN /\ devState' = "open"
                 /\ pc' = [d \in Duties |-> "start"]
                 /\ phase' = "Active"
                 /\ sess' = [sess EXCEPT !.connect = "ok"]
                 /\ UNCHANGED out
            ELSE /\ Emit(OutMsg("error", "session", 0, <<>>))
                 /\ phase' = "Closed"
                 /\ devState' = "closed"
                 /\ sess' = [sess EXCEPT !.connect = "failed", !.closeCalls = @ + 1]
                 /\ UNCHANGED pc
    /\ UNCHANGED <<config, logger, mem, lockVars, stop, cancelReq, pollLocals,
                   cmdLocals, storeVars, clock, cycles, received, wireOps, cyc, cmdg,
                   lastAppend>>
    /\ UNCHANGED <<rest, db, scorer, chan, anom, glob>>

\* client.connect() returned, the transport connected or not; when connect does
\* not raise both tasks are created and the session awaits
\* asyncio.wait(..., FIRST_EXCEPTION)
ConnectDone ==
    /\ phase = "Connecting"
    /\ \E connected \in BOOLEAN :
         /\ sess' = [sess EXCEPT !.connect = IF connected THEN "ok" ELSE "failed"]
         /\ IF ~ConnectRaises(connected)
            THEN /\ devState' = "open"
                 /\ pc' = [d \in Duties |-> "start"]
                 /\ phase' = "Active"
                 /\ UNCHANGED out
            ELSE \* the exception leaves tcp_session before its try block and
                 \* is caught by `except ModbusConnectionError`
                 /\ Emit(OutMsg("error", "session", 0, <<>>))
                 /\ phase' = "Closed"
                 /\ UNCHANGED <<devState, pc>>
    /\ UNCHANGED <<config, logger, mem, lockVars, stop, cancelReq, pollLocals,
                   cmdLocals, storeVars, clock, cycles, received, wireOps, cyc, cmdg,
                   lastAppend>>
    /\ UNCHANGED <<rest, db, scorer, chan, anom, glob>>

-----------------------------------------------------------------------------
(* monitor.py: _poll_registers *)

\* timer expirations and inbound messages so far
EventsUsed == (IF cycles = 0 THEN 0 ELSE cycles - 1) + received

Running(d) == d \notin cancelReq

\* faulty variant: the entry carries the first address of the register space
Entry_ZeroAddress(t, values) == [address |-> 0, kind |-> t.kind, values |-> values]

\* one element of the payload of a cycle or of a one-shot read
Entry(t, values) == [address |-> t.address, kind |-> t.kind, values |-> values]

SetPc(d, p) == pc' = [pc EXCEPT ![d] = p]

\* session.read(target) is called: the lock is taken or queued for; once the
\* lock is held the read is handed to the client
PollCallRead(L, c) ==
    LET L2 == TryAcquire(L, "poll") IN
    /\ SetLock(L2)
    /\ cyc' = [c EXCEPT !.reads = @ + 1]
    /\ IF "poll" \in L2.inCS
       THEN /\ SetPc("poll", "read_io")
            /\ wireOps' = wireOps + 1
       ELSE /\ SetPc("poll", "read_lock")
            /\ UNCHANGED wireOps

\* faulty variant: `while True`, the stop condition is not tested
PollLoopHead_IgnoreStop ==
    /\ (cycles = 0 \/ EventsUsed < MaxEvents)
    /\ cycles' = cycles + 1
    /\ pIdx' = 1
    /\ payload' = <<>>
    /\ PollCallRead(CurLock, [NoCyc EXCEPT !.seq0 = sess.writeSeq])

\* `while not stop_event.is_set()`: leave, or start a cycle with its first read
PollLoopHead ==
    IF stop
    THEN /\ SetPc("poll", "done")
         /\ UNCHANGED <<lockVars, wireOps, cycles, pIdx, payload, cyc>>
    ELSE /\ (cycles = 0 \/ EventsUsed < MaxEvents)
         /\ cycles' = cycles + 1
         /\ pIdx' = 1
         /\ payload' = <<>>
         /\ PollCallRead(CurLock, [NoCyc EXCEPT !.seq0 = sess.writeSeq])

\* faulty variant: the poll duty sends no status of its own
PollStart_NoStatus ==
    /\ pc["poll"] = "start"
    /\ Running("poll")
    /\ SetPc("poll", "send_status")
    /\ UNCHANGED <<phase, config, logger, devState, mem, lockVars, stop, cancelReq,
                   pollLocals, cmdLocals, storeVars, out, clock, cycles, received,
                   wireOps, cyc, cmdg, lastAppend, sess>>
    /\ UNCHANGED <<rest, db, scorer, chan, anom, glob>>

\* first step of the task: the "Monitoring ..." status is sent
PollStart ==
    /\ pc["poll"] = "start"
    /\ Running("poll")
    /\ Emit(OutMsg("status", "poll", 0, <<>>))
    /\ SetPc("poll", "send_status")
    /\ UNCHANGED <<phase, config, logger, devState, mem, lockVars, stop, cancelReq,
                   pollLocals, cmdLocals, storeVars, clock, cycles, received, wireOps,
                   cyc, cmdg, lastAppend, sess>>
    /\ UNCHANGED <<rest, db, scorer, chan, anom, glob>>

\* the status was sent: enter the loop
PollEnterLoop ==
    /\ pc["poll"] = "send_status"
    /\ Running("poll")
    /\ PollLoopHead
    /\ UNCHANGED <<phase, config, logger, devState, mem, stop, cancelReq, pTs,
                   cmdLocals, storeVars, out, clock, received, cmdg, lastAppend, sess>>
    /\ UNCHANGED <<rest, db, scorer, chan, anom, glob>>

\* the queued read gets the lock and is handed to the client
PollLockGranted ==
    /\ pc["poll"] = "read_lock"
    /\ Running("poll")
    /\ CanGrant(CurLock, "poll")
    /\ SetLock(Grant(CurLock, "poll"))
    /\ SetPc("poll", "read_io")
    /\ wireOps' = wireOps + 1
    /\ UNCHANGED <<phase, config, logger, devState, mem, stop, cancelReq, pollLocals,
                   cmdLocals, storeVars, out, clock, cycles, received, cyc, cmdg,
                   lastAppend, sess>>
    /\ UNCHANGED <<rest, db, scorer, chan, anom, glob>>

\* an exception that is no ModbusException leaves the task
PollCrash(L) ==
    /\ SetLock(L)
    /\ SetPc("poll", "failed")
    /\ UNCHANGED <<pollLocals, storeVars, out, clock, wireOps, cyc, lastAppend>>

\* faulty variant: the try/except sits inside the for loop, so the cycle goes on
PollReadFailed_KeepGoing(L) ==
    /\ Emit(OutMsg("error", "poll", 0, <<>>))
    /\ UNCHANGED <<payload, pTs, storeVars, clock, lastAppend>>
    /\ IF pIdx < Len(config.targets)
       THEN /\ pIdx' = pIdx + 1
            /\ PollCallRead(L, [cyc EXCEPT !.failed = TRUE, !.errors = @ + 1,
                                           !.readsAtFail = cyc.reads])
       ELSE /\ SetLock(L)
            /\ SetPc("poll", "send_error")
            /\ cyc' = [cyc EXCEPT !.failed = TRUE, !.errors = @ + 1,
                                  !.readsAtFail = cyc.reads]
            /\ UNCHANGED <<pIdx, wireOps>>

\* faulty variant: the except clause re-raises after sending the error
PollReadFailed_Reraise(L) ==
    /\ SetLock(L)
    /\ Emit(OutMsg("error", "poll", 0, <<>>))
    /\ SetPc("poll", "failed")
    /\ cyc' = [cyc EXCEPT !.failed = TRUE, !.errors = @ + 1, !.readsAtFail = cyc.reads]
    /\ UNCHANGED <<pollLocals, storeVars, clock, wireOps, lastAppend>>

\* faulty variant: the lock is released by hand after a read that returned, and
\* not when the read raised
PollReadFailed_KeepLock(L) ==
    /\ UNCHANGED lockVars
    /\ Emit(OutMsg("error", "poll", 0, <<>>))
    /\ SetPc("poll", "send_error")
    /\ cyc' = [cyc EXCEPT !.failed = TRUE, !.errors = @ + 1, !.readsAtFail = cyc.reads]
    /\ UNCHANGED <<pollLocals, storeVars, clock, wireOps, lastAppend>>

\* except ModbusOperationError: one error message, the payload is dropped
PollReadFailed(L) ==
    /\ SetLock(L)
    /\ Emit(OutMsg("error", "poll", 0, <<>>))
    /\ SetPc("poll", "send_error")
    /\ cyc' = [cyc EXCEPT !.failed = TRUE, !.errors = @ + 1, !.readsAtFail = cyc.reads]
    /\ UNCHANGED <<pollLocals, storeVars, clock, wireOps, lastAppend>>

\* the else branch of the try: timestamp, log_readings, update
PollLogAndUpdate(L, data) ==
    LET ts == clock
        recs == LogRecords(logger, data, "monitor", ts)
    IN
    /\ SetLock(L)
    /\ payload' = data
    /\ pTs' = ts
    /\ clock' = clock + 1
    /\ UNCHANGED <<pIdx, store, wireOps>>
    /\ IF recs = <<>>
       THEN \* log_readings returns without awaiting
            /\ lastAppend' = [source |-> "monitor", ts |-> ts, readings |-> data,
                              result |-> "skipped"]
            /\ Emit(OutMsg("update", "poll", ts, data))
            /\ SetPc("poll", "send_update")
            /\ cyc' = [cyc EXCEPT !.appends = @ + 1, !.updates = @ + 1]
            /\ UNCHANGED logJob
       ELSE \* await asyncio.to_thread(self._write_records, records)
            /\ lastAppend' = [source |-> "monitor", ts |-> ts, readings |-> data,
                              result |-> "pending"]
            /\ logJob' = [state |-> "pending", records |-> recs]
            /\ SetPc("poll", "logging")
            /\ cyc' = [cyc EXCEPT !.appends = @ + 1]
            /\ UNCHANGED out

\* faulty variant: the lock is taken once for the whole cycle and released
\* after the last read
PollReadOk_HoldLock(L, entry) ==
    IF pIdx < Len(config.targets)
    THEN /\ payload' = Append(payload, entry)
         /\ pIdx' = pIdx + 1
         /\ UNCHANGED lockVars
         /\ cyc' = [cyc EXCEPT !.reads = @ + 1]
         /\ SetPc("poll", "read_io")
         /\ wireOps' = wireOps + 1
         /\ UNCHANGED <<pTs, storeVars, out, clock, lastAppend>>
    ELSE PollLogAndUpdate(L, Append(payload, entry))

\* the read returned values: next target, or the end of the for loop
PollReadOk(L, entry) ==
    IF pIdx < Len(config.targets)
    THEN /\ payload' = Append(payload, entry)
         /\ pIdx' = pIdx + 1
         /\ PollCallRead(L, cyc)
         /\ UNCHANGED <<pTs, storeVars, out, clock, lastAppend>>
    ELSE PollLogAndUpdate(L, Append(payload, entry))

\* the client returns from the read (response or exception): the lock is
\* released, then _extract_values runs
PollReadDone ==
    /\ pc["poll"] = "read_io"
    /\ Running("poll")
    /\ \E o \in PollReadOutcomes :
         LET t == config.targets[pIdx]
             L1 == Release(CurLock, "poll")
             ext == ExtractValues(ReadResponse(mem, t, o), t.count)
         IN IF o = "other" THEN PollCrash(L1)
            ELSE IF o = "modbus" \/ ~ext.ok THEN PollReadFailed(L1)
            ELSE PollReadOk(L1, Entry(t, ext.values))
    /\ UNCHANGED <<phase, config, logger, devState, mem, stop, cancelReq, cmdLocals,
                   cycles, received, cmdg, sess>>
    /\ UNCHANGED <<rest, db, scorer, chan, anom, glob>>

\* faulty variant: the update carries a fresh reading of the clock
PollLogDone_FreshTs ==
    /\ pc["poll"] = "logging"
    /\ Running("poll")
    /\ logJob.state \in {"ok", "err"}
    /\ lastAppend' = [lastAppend EXCEPT !.result = logJob.state]
    /\ logJob' = NoJob
    /\ Emit(OutMsg("update", "poll", clock, payload))
    /\ SetPc("poll", "send_update")
    /\ cyc' = [cyc EXCEPT !.updates = @ + 1]
    /\ UNCHANGED <<phase, config, logger, devState, mem, lockVars, stop, cancelReq,
                   pollLocals, cmdLocals, store, clock, cycles, received, wireOps,
                   cmdg, sess>>
    /\ UNCHANGED <<rest, db, scorer, chan, anom, glob>>

\* faulty variant: the failure of the write leaves log_readings and ends the
\* poll duty
PollLogDone_Reraise ==
    /\ pc["poll"] = "logging"
    /\ Running("poll")
    /\ logJob.state \in {"ok", "err"}
    /\ lastAppend' = [lastAppend EXCEPT !.result = logJob.state]
    /\ logJob' = NoJob
    /\ IF logJob.state = "err"
       THEN /\ SetPc("poll", "failed")
            /\ UNCHANGED <<out, cyc>>
       ELSE /\ Emit(OutMsg("update", "poll", pTs, payload))
            /\ SetPc("poll", "send_update")
            /\ cyc' = [cyc EXCEPT !.updates = @ + 1]
    /\ UNCHANGED <<phase, config, logger, devState, mem, lockVars, stop, cancelReq,
                   pollLocals, cmdLocals, store, clock, cycles, received, wireOps,
                   cmdg, sess>>
    /\ UNCHANGED <<rest, db, scorer, chan, anom, glob>>

\* to_thread returned (a failure of the write is swallowed): the update is sent
PollLogDone ==
    /\ pc["poll"] = "logging"
    /\ Running("poll")
    /\ logJob.state \in {"ok", "err"}
    /\ lastAppend' = [lastAppend EXCEPT !.result = logJob.state]
    /\ logJob' = NoJob
    /\ Emit(OutMsg("update", "poll", pTs, payload))
    /\ SetPc("poll", "send_update")
    /\ cyc' = [cyc EXCEPT !.updates = @ + 1]
    /\ UNCHANGED <<phase, config, logger, devState, mem, lockVars, stop, cancelReq,
                   pollLocals, cmdLocals, store, clock, cycles, received, wireOps,
                   cmdg, sess>>
    /\ UNCHANGED <<rest, db, scorer, chan, anom, glob>>

\* the update or error was sent: wait_for(stop_event.wait(), interval)
PollBeginWait ==
    /\ pc["poll"] \in {"send_update", "send_error"}
    /\ Running("poll")
    /\ SetPc("poll", IF stop THEN "done" ELSE "waiting")
    /\ UNCHANGED <<phase, config, logger, devState, mem, lockVars, stop, cancelReq,
                   pollLocals, cmdLocals, storeVars, out, clock, cycles, received,
                   wireOps, cyc, cmdg, lastAppend, sess>>
    /\ UNCHANGED <<rest, db, scorer, chan, anom, glob>>

\* the wait ends, by the event or by the timeout: back to the loop head
PollWake ==
    /\ pc["poll"] = "waiting"
    /\ Running("poll")
    /\ PollLoopHead
    /\ UNCHANGED <<phase, config, logger, devState, mem, stop, cancelReq, pTs,
                   cmdLocals, storeVars, out, clock, received, cmdg, lastAppend, sess>>
    /\ UNCHANGED <<rest, db, scorer, chan, anom, glob>>


-----------------------------------------------------------------------------
(* monitor.py: _handle_commands and _perform_writes *)

\* session.write(op) is called: the lock is taken or queued for; once the lock
\* is held the write is handed to the client
CmdCallWrite(L, g) ==
    LET L2 == TryAcquire(L, "cmd") IN
    /\ SetLock(L2)
    /\ cmdg' = [g EXCEPT !.issued = @ + 1]
    /\ IF "cmd" \in L2.inCS
       THEN /\ SetPc("cmd", "write_io")
            /\ wireOps' = wireOps + 1
       ELSE /\ SetPc("cmd", "write_lock")
            /\ UNCHANGED wireOps

\* first step of the task (created after the poll task): await the first text
CmdStart ==
    /\ pc["cmd"] = "start"
    /\ pc["poll"] # "start"
    /\ Running("cmd")
    /\ SetPc("cmd", "recv")
    /\ UNCHANGED <<phase, config, logger, devState, mem, lockVars, stop, cancelReq,
                   pollLocals, cmdLocals, storeVars, out, clock, cycles, received,
                   wireOps, cyc, cmdg, lastAppend, sess>>
    /\ UNCHANGED <<rest, db, scorer, chan, anom, glob>>

\* faulty variant: a configure command on an open session replaces the configuration
CmdReceive_Reconfigure(m) ==
    /\ pc["cmd"] = "recv"
    /\ Running("cmd")
    /\ EventsUsed < MaxEvents
    /\ received' = received + 1
    /\ IF ~CommandValid(m)
       THEN /\ Emit(OutMsg("error", "cmd", 0, <<>>))
            /\ SetPc("cmd", "sent")
            /\ cmdg' = [NoCmd EXCEPT !.kind = "malformed"]
            /\ UNCHANGED <<lockVars, cmdLocals, wireOps, config>>
       ELSE IF m.type = "ping"
       THEN /\ Emit(OutMsg("pong", "cmd", 0, <<>>))
            /\ SetPc("cmd", "sent")
            /\ cmdg' = [NoCmd EXCEPT !.kind = "ping"]
            /\ UNCHANGED <<lockVars, cmdLocals, wireOps, config>>
       ELSE IF m.type = "configure"
       THEN /\ Emit(OutMsg("status", "cmd", 0, <<>>))
            /\ config' = [interval |-> EffectiveInterval(m), targets |-> m.targets]
            /\ SetPc("cmd", "sent")
            /\ cmdg' = [NoCmd EXCEPT !.kind = "configure"]
            /\ UNCHANGED <<lockVars, cmdLocals, wireOps>>
       ELSE /\ cWrites' = m.writes
            /\ cIdx' = 1
            /\ CmdCallWrite(CurLock, [NoCmd EXCEPT !.active = TRUE, !.kind = "write"])
            /\ UNCHANGED <<out, config>>
    /\ UNCHANGED <<phase, logger, devState, mem, stop, cancelReq, pollLocals,
                   storeVars, clock, cycles, cyc, lastAppend, sess>>
    /\ UNCHANGED <<rest, db, scorer, chan, anom, glob>>

\* one inbound text is consumed and answered, or its writes are started
CmdReceive(m) ==
    /\ pc["cmd"] = "recv"
    /\ Running("cmd")
    /\ EventsUsed < MaxEvents
    /\ received' = received + 1
    /\ IF ~CommandValid(m)
       THEN /\ Emit(OutMsg("error", "cmd", 0, <<>>))
            /\ SetPc("cmd", "sent")
            /\ cmdg' = [NoCmd EXCEPT !.kind = "malformed"]
            /\ UNCHANGED <<lockVars, cmdLocals, wireOps>>
       ELSE IF m.type = "ping"
       THEN /\ Emit(OutMsg("pong", "cmd", 0, <<>>))
            /\ SetPc("cmd", "sent")
            /\ cmdg' = [NoCmd EXCEPT !.kind = "ping"]
            /\ UNCHANGED <<lockVars, cmdLocals, wireOps>>
       ELSE IF m.type = "configure"
       THEN /\ Emit(OutMsg("error", "cmd", 0, <<>>))
            /\ SetPc("cmd", "sent")
            /\ cmdg' = [NoCmd EXCEPT !.kind = "configure"]
            /\ UNCHANGED <<lockVars, cmdLocals, wireOps>>
       ELSE /\ cWrites' = m.writes
            /\ cIdx' = 1
            /\ CmdCallWrite(CurLock, [NoCmd EXCEPT !.active = TRUE, !.kind = "write"])
            /\ UNCHANGED out
    /\ UNCHANGED <<phase, config, logger, devState, mem, stop, cancelReq, pollLocals,
                   storeVars, clock, cycles, cyc, lastAppend, sess>>
    /\ UNCHANGED <<rest, db, scorer, chan, anom, glob>>

\* faulty variant: the loop ends without stop_event.set()
CmdDisconnect_NoStop ==
    /\ pc["cmd"] = "recv"
    /\ Running("cmd")
    /\ SetPc("cmd", "done")
    /\ sess' = [sess EXCEPT !.exhausted = TRUE]
    /\ UNCHANGED <<phase, config, logger, devState, mem, lockVars, stop, cancelReq,
                   pollLocals, cmdLocals, storeVars, out, clock, cycles, received,
                   wireOps, cyc, cmdg, lastAppend>>
    /\ UNCHANGED <<rest, db, scorer, chan, anom, glob>>

\* the inbound stream is exhausted (disconnect): the loop ends, stop_event.set()
CmdDisconnect ==
    /\ pc["cmd"] = "recv"
    /\ Running("cmd")
    /\ stop' = TRUE
    /\ SetPc("cmd", "done")
    /\ sess' = [sess EXCEPT !.exhausted = TRUE]
    /\ UNCHANGED <<phase, config, logger, devState, mem, lockVars, cancelReq,
                   pollLocals, cmdLocals, storeVars, out, clock, cycles, received,
                   wireOps, cyc, cmdg, lastAppend>>
    /\ UNCHANGED <<rest, db, scorer, chan, anom, glob>>

\* the queued write gets the lock and is handed to the client
CmdLockGranted ==
    /\ pc["cmd"] = "write_lock"
    /\ Running("cmd")
    /\ CanGrant(CurLock, "cmd")
    /\ SetLock(Grant(CurLock, "cmd"))
    /\ SetPc("cmd", "write_io")
    /\ wireOps' = wireOps + 1
    /\ UNCHANGED <<phase, config, logger, devState, mem, stop, cancelReq, pollLocals,
                   cmdLocals, storeVars, out, clock, cycles, received, cyc, cmdg,
                   lastAppend, sess>>
    /\ UNCHANGED <<rest, db, scorer, chan, anom, glob>>

\* faulty variant: the `return` after the error message is missing
CmdWriteFailed_NoReturn(L) ==
    /\ Emit(OutMsg("error", "cmd", 0, <<>>))
    /\ UNCHANGED <<mem, cWrites>>
    /\ IF cIdx < Len(cWrites)
       THEN /\ cIdx' = cIdx + 1
            /\ CmdCallWrite(L, [cmdg EXCEPT !.failedAt = cIdx, !.errors = @ + 1])
       ELSE /\ SetLock(L)
            /\ SetPc("cmd", "sent")
            /\ cmdg' = [cmdg EXCEPT !.failedAt = cIdx, !.errors = @ + 1,
                                    !.acks = @ + 1]
            /\ UNCHANGED <<cIdx, wireOps>>
    /\ UNCHANGED sess

\* _perform_writes after a write that raised ModbusOperationError
CmdWriteFailed(L) ==
    /\ SetLock(L)
    /\ Emit(OutMsg("error", "cmd", 0, <<>>))
    /\ SetPc("cmd", "sent")
    /\ cmdg' = [cmdg EXCEPT !.failedAt = cIdx, !.errors = @ + 1]
    /\ UNCHANGED <<mem, cmdLocals, wireOps, sess>>

\* faulty variant: the ack is sent inside the for loop, once per write
CmdWriteOk_AckEach(L, w) ==
    LET g == [cmdg EXCEPT !.applied = Append(@, w), !.acks = @ + 1] IN
    /\ mem' = ApplyWrite(mem, w)
    /\ sess' = [sess EXCEPT !.writeSeq = @ + 1, !.lastWritten = NoteWrite(@, w)]
    /\ Emit(OutMsg("ack", "cmd", 0, <<>>))
    /\ IF cIdx < Len(cWrites)
       THEN /\ cIdx' = cIdx + 1
            /\ CmdCallWrite(L, g)
            /\ UNCHANGED cWrites
       ELSE /\ SetLock(L)
            /\ SetPc("cmd", "sent")
            /\ cmdg' = g
            /\ UNCHANGED <<cmdLocals, wireOps>>

\* _perform_writes after a write that returned: next write, or the ack
CmdWriteOk(L, w) ==
    LET g == [cmdg EXCEPT !.applied = Append(@, w)] IN
    /\ mem' = ApplyWrite(mem, w)
    /\ sess' = [sess EXCEPT !.writeSeq = @ + 1,
                            !.lastWritten = NoteWrite(@, w),
                            !.writtenAt = NoteWrite(@, [w EXCEPT !.value =
                                             [j \in 1..Len(w.value) |-> sess.writeSeq + 1]])]
    /\ IF cIdx < Len(cWrites)
       THEN /\ cIdx' = cIdx + 1
            /\ CmdCallWrite(L, g)
            /\ UNCHANGED <<cWrites, out>>
       ELSE /\ SetLock(L)
            /\ Emit(OutMsg("ack", "cmd", 0, <<>>))
            /\ SetPc("cmd", "sent")
            /\ cmdg' = [g EXCEPT !.acks = @ + 1]
            /\ UNCHANGED <<cmdLocals, wireOps>>

\* the client returns from the write (response or exception): the lock is
\* released, then response.isError() is tested
CmdWriteDone ==
    /\ pc["cmd"] = "write_io"
    /\ Running("cmd")
    /\ \E o \in WriteOutcomes :
         LET L1 == Release(CurLock, "cmd") IN
         IF o = "other"
         THEN /\ SetLock(L1)
              /\ SetPc("cmd", "failed")
              /\ UNCHANGED <<mem, cmdLocals, out, wireOps, cmdg, sess>>
         ELSE IF o \in {"modbus", "errresp"} THEN CmdWriteFailed(L1)
         ELSE CmdWriteOk(L1, cWrites[cIdx])
    /\ UNCHANGED <<phase, config, logger, devState, stop, cancelReq, pollLocals,
                   storeVars, clock, cycles, received, cyc, lastAppend>>
    /\ UNCHANGED <<rest, db, scorer, chan, anom, glob>>

\* the answer was sent: back to `async for raw in websocket.iter_text()`
CmdResume ==
    /\ pc["cmd"] = "sent"
    /\ Running("cmd")
    /\ SetPc("cmd", "recv")
    /\ UNCHANGED <<phase, config, logger, devState, mem, lockVars, stop, cancelReq,
                   pollLocals, cmdLocals, storeVars, out, clock, cycles, received,
                   wireOps, cyc, cmdg, lastAppend, sess>>
    /\ UNCHANGED <<rest, db, scorer, chan, anom, glob>>

-----------------------------------------------------------------------------
(* monitor.py: run_monitor_session after asyncio.wait; tcp_session exit *)

Finished(d) == pc[d] \in {"done", "failed"}
Raised == {d \in Duties : pc[d] = "failed"}

\* asyncio.wait(FIRST_EXCEPTION) returns: a task raised, or both are done
WaitReturns == Raised # {} \/ \A d \in Duties : Finished(d)

\* faulty variant: the session is not closed on the way out
TcpSessionExit_NoClose(ds) == ds

\* the finally block of tcp_session: session.close()
TcpSessionExit(ds) == "closed"

\* faulty variant: pending tasks are not cancelled
ToCancel_None == {}

\* faulty variant: the loop cancels the tasks of `done` instead of `pending`
ToCancel_Done == {d \in Duties : Finished(d)}

\* `for task in pending: task.cancel()`
ToCancel == {d \in Duties : ~Finished(d)}

\* wait returned: stop_event.set(), pending tasks cancelled, the exception of a
\* done task raised; leaving the `async with` runs tcp_session's finally
SessionWake ==
    /\ phase = "Active"
    /\ WaitReturns
    /\ stop' = TRUE
    /\ cancelReq' = ToCancel
    /\ devState' = TcpSessionExit(devState)
    /\ phase' = IF Raised # {} THEN "ClosingErr" ELSE "ClosingOk"
    /\ sess' = [sess EXCEPT !.pendingAtWake = {d \in Duties : ~Finished(d)},
                            !.raisedAtWake = (Raised # {}),
                            !.closeCalls = @ + 1]
    /\ UNCHANGED <<config, logger, mem, lockVars, pc, pollLocals, cmdLocals,
                   storeVars, out, clock, cycles, received, wireOps, cyc, cmdg,
                   lastAppend>>
    /\ UNCHANGED <<rest, db, scorer, chan, anom, glob>>

\* the context manager was left: `except Exception` sends the terminal error
\* if an exception was raised; the function returns and the channel closes
SessionReturn ==
    /\ phase \in {"ClosingErr", "ClosingOk"}
    /\ phase' = "Closed"
    /\ IF phase = "ClosingErr"
       THEN /\ Emit(OutMsg("error", "session", 0, <<>>))
            /\ sess' = [sess EXCEPT !.termDevState = devState]
       ELSE UNCHANGED <<out, sess>>
    /\ UNCHANGED <<config, logger, devState, mem, lockVars, stop, pc, cancelReq,
                   pollLocals, cmdLocals, storeVars, clock, cycles, received,
                   wireOps, cyc, cmdg, lastAppend>>
    /\ UNCHANGED <<rest, db, scorer, chan, anom, glob>>

\* CancelledError is thrown into a cancelled task at its await: it unwinds
\* (leaving the lock block if it is in one); a write in flight may or may not
\* have reached the device
DutyCancelled(d) ==
    /\ d \in cancelReq
    /\ pc[d] \notin {"done", "failed", "cancelled"}
    /\ SetPc(d, "cancelled")
    /\ locked' = IF d \in inCS THEN FALSE ELSE locked
    /\ inCS' = inCS \ {d}
    /\ waiters' = RemoveWaiter(waiters, d)
    /\ IF pc[d] = "write_io"
       THEN \E appliedAnyway \in BOOLEAN :
              mem' = IF appliedAnyway THEN ApplyWrite(mem, cWrites[cIdx]) ELSE mem
       ELSE UNCHANGED mem
    /\ UNCHANGED <<phase, config, logger, devState, stop, cancelReq, pollLocals,
                   cmdLocals, storeVars, out, clock, cycles, received, wireOps, cyc,
                   cmdg, lastAppend, sess>>
    /\ UNCHANGED <<rest, db, scorer, chan, anom, glob>>

-----------------------------------------------------------------------------
(* The session *)

PollStep ==
    \/ PollStart
    \/ PollEnterLoop
    \/ PollLockGranted
    \/ PollReadDone
    \/ PollLogDone
    \/ PollBeginWait
    \/ PollWake

CmdStep ==
    \/ CmdStart
    \/ CmdLockGranted
    \/ CmdWriteDone
    \/ CmdResume

Next ==
    \/ \E m \in FirstMessages : Handshake(m)
    \/ StartSession
    \/ ConnectDone
    \/ PollStart
    \/ PollEnterLoop
    \/ PollLockGranted
    \/ PollReadDone
    \/ PollLogDone
    \/ PollBeginWait
    \/ PollWake
    \/ CmdStart
    \/ \E m \in ActiveMessages : CmdReceive(m)
    \/ CmdDisconnect
    \/ CmdLockGranted
    \/ CmdWriteDone
    \/ CmdResume
    \/ WriteRecords
    \/ SessionWake
    \/ SessionReturn
    \/ \E d \in Duties : DutyCancelled(d)

Spec == Init /\ [][Next]_vars

\* The event loop runs every task that can run; the device, the worker thread
\* and the timer answer.  Nothing forces the client to send or to disconnect.
FairSpec ==
    /\ Spec
    /\ WF_vars(PollStep)
    /\ WF_vars(CmdStep)
    /\ WF_vars(WriteRecords)
    /\ WF_vars(SessionWake)
    /\ WF_vars(SessionReturn)
    /\ WF_vars(\E d \in Duties : DutyCancelled(d))

TypeOK ==
    /\ phase \in {"Idle", "Configured", "Connecting", "Active", "ClosingErr",
                  "ClosingOk", "Closed"}
    /\ devState \in {"never", "open", "closed"}
    /\ locked \in BOOLEAN
    /\ inCS \subseteq Duties
    /\ stop \in BOOLEAN
    /\ cancelReq \subseteq Duties
    /\ cycles \in 0..(MaxEvents + 1)
    /\ received \in 0..MaxEvents
    /\ EventsUsed <= MaxEvents


-----------------------------------------------------------------------------
(* api.py: read_modbus and write_modbus, each call with a ModbusTcpSession of *)
(* its own (tcp_session), against the same device and the same store         *)

\* calls of the one-shot handlers
MaxRequests == 3

W_c2 == [kind |-> "coil", address |-> 1, shape |-> "scalar", value |-> <<2>>]
W_cl == [kind |-> "coil", address |-> 1, shape |-> "list", value |-> <<0>>]

ReadPayloads == {<<>>, <<T_c1>>, <<T_h0, T_c1>>}
WritePayloads == {<<>>, <<W_h>>, <<W_cl>>, <<W_c2, W_hl>>, <<W_h, W_c, W_hl>>}

\* the attributes of the client that _is_connected reads after client.connect()
ClientStates ==
    {[connected |-> TRUE, protocol |-> "set", transport |-> "set"],
     [connected |-> FALSE, protocol |-> "set", transport |-> "set"],
     [connected |-> FALSE, protocol |-> "set", transport |-> "none"],
     [connected |-> FALSE, protocol |-> "none", transport |-> "none"]}

\* faulty variant: `not getattr(...) is None` read as `(not getattr(...)) is None`
IsConnected_NotFirst(c) ==
    IF c.connected THEN TRUE
    ELSE c.protocol # "none" /\ FALSE

\* _is_connected
IsConnected(c) ==
    IF c.connected THEN TRUE
    ELSE c.protocol # "none" /\ ~(c.transport = "none")

\* client.close() is a coroutine function, or a plain function that returns None
CloseOutcomes == {"awaitable", "sync"}

\* `await self._client.close()`: awaiting None raises TypeError
CloseRaises(co) == co = "sync"

\* variables the one-shot handlers never touch
sessionOnly == <<phase, config, logger, devState, locked, waiters, inCS, stop, pc,
                 cancelReq, pIdx, payload, pTs, cWrites, cIdx, out, cycles, received,
                 wireOps, cyc, cmdg, lastAppend, sess, db, scorer, chan, anom, glob>>

\* the body of `async with tcp_session(...)`: the next operation takes the lock
\* of the new session and is handed to the client, or the block is left and
\* tcp_session's finally calls session.close()
RestContinue(r) ==
    LET n == IF r.op = "read" THEN Len(r.targets) ELSE Len(r.writes) IN
    IF r.idx < n
    THEN [r EXCEPT !.idx = @ + 1, !.pc = "io", !.locked = TRUE, !.ops = @ + 1,
                   !.prims = IF r.op = "write"
                             THEN Append(@, WritePrimitive(r.writes[r.idx + 1]))
                             ELSE @]
    ELSE [r EXCEPT !.pc = "closing"]

\* an exception leaves the block: tcp_session's finally calls session.close()
RestRaise(r, e) == [r EXCEPT !.pending = e, !.opError = e, !.pc = "closing"]

\* POST /api/modbus/read is called: tcp_session() awaits session.connect()
ReadModbus(targets) ==
    /\ rest.pc \in {"idle", "returned"}
    /\ rest.requests < MaxRequests
    /\ rest' = [NoRest EXCEPT !.pc = "connecting", !.op = "read", !.targets = targets,
                              !.requests = rest.requests + 1, !.store0 = store,
                              !.lastWritten = rest.lastWritten]
    /\ UNCHANGED <<sessionOnly, mem, logJob, store, clock>>

\* POST /api/modbus/write is called: tcp_session() awaits session.connect()
WriteModbus(writes) ==
    /\ rest.pc \in {"idle", "returned"}
    /\ rest.requests < MaxRequests
    /\ rest' = [NoRest EXCEPT !.pc = "connecting", !.op = "write", !.writes = writes,
                              !.requests = rest.requests + 1, !.store0 = store,
                              !.lastWritten = rest.lastWritten]
    /\ UNCHANGED <<sessionOnly, mem, logJob, store, clock>>

\* client.connect() returned: ModbusConnectionError leaves tcp_session before
\* its try block and becomes HTTP 502; otherwise the body starts
RestConnectDone ==
    /\ rest.pc = "connecting"
    /\ \E c \in ClientStates :
         LET r == [rest EXCEPT !.client = c] IN
         rest' = IF ConnectRaises(IsConnected(c))
                 THEN [r EXCEPT !.status = 502, !.pc = "returned"]
                 ELSE RestContinue([r EXCEPT !.transport = "open"])
    /\ UNCHANGED <<sessionOnly, mem, logJob, store, clock>>

\* the client returns from the read or write: the lock is released, the result
\* is checked, and the loop goes on or the exception leaves the block
RestOpDone ==
    /\ rest.pc = "io"
    /\ LET r == [rest EXCEPT !.locked = FALSE] IN
       IF rest.op = "read"
       THEN /\ \E o \in ReadOutcomes :
                 LET t == rest.targets[rest.idx]
                     resp == ReadResponse(mem, t, o)
                     ext == ExtractValues(resp, t.count)
                     r2 == [r EXCEPT !.resps = Append(@, resp)]
                 IN rest' = IF o = "other" THEN RestRaise(r, "other")
                            ELSE IF o = "modbus" THEN RestRaise(r, "operation")
                            ELSE IF ~ext.ok THEN RestRaise(r2, "operation")
                            ELSE RestContinue([r2 EXCEPT !.readings =
                                                   Append(@, Entry(t, ext.values))])
            /\ UNCHANGED mem
       ELSE \E o \in WriteOutcomes :
                 LET w == rest.writes[rest.idx]
                     r2 == [r EXCEPT !.wres = Append(@, o)]
                 IN
                 IF o = "other"
                 THEN rest' = RestRaise(r2, "other") /\ UNCHANGED mem
                 ELSE IF o \in {"modbus", "errresp"}
                 THEN rest' = RestRaise(r2, "operation") /\ UNCHANGED mem
                 ELSE /\ mem' = ApplyWrite(mem, w)
                      /\ rest' = RestContinue([r2 EXCEPT !.lastWritten = NoteWrite(@, w)])
    /\ UNCHANGED <<sessionOnly, logJob, store, clock>>

\* faulty variant: write_modbus calls log_readings as well, with no reading
RestCloseDone_WriteLogs ==
    /\ rest.pc = "closing"
    /\ \E co \in CloseOutcomes :
         LET e == IF CloseRaises(co) THEN "other" ELSE rest.pending
             r == [rest EXCEPT !.transport = "closed", !.closeCalls = @ + 1,
                               !.closeRaised = CloseRaises(co), !.pending = e]
             recs == LogRecords(logger, rest.readings, "read", clock)
         IN IF e # "none"
            THEN /\ rest' = [r EXCEPT !.status = IF e = "operation" THEN 502 ELSE 500,
                                      !.pc = "returned"]
                 /\ UNCHANGED <<logJob, clock>>
            ELSE IF rest.op = "write"
            THEN /\ rest' = [r EXCEPT !.logCalls = @ + 1, !.logTs = clock,
                                      !.logResult = "skipped", !.status = 200,
                                      !.body = <<Len(rest.writes)>>, !.pc = "returned"]
                 /\ clock' = clock + 1
                 /\ UNCHANGED logJob
            ELSE /\ clock' = clock + 1
                 /\ IF recs = <<>>
                    THEN /\ rest' = [r EXCEPT !.logCalls = @ + 1, !.status = 200,
                                              !.logTs = clock, !.logResult = "skipped",
                                              !.body = rest.readings, !.pc = "returned"]
                         /\ UNCHANGED logJob
                    ELSE /\ rest' = [r EXCEPT !.logCalls = @ + 1, !.logTs = clock,
                                              !.pc = "logging"]
                         /\ logJob' = [state |-> "pending", records |-> recs]
    /\ UNCHANGED <<sessionOnly, mem, store>>

\* session.close() returned or raised; then the handler's except clause turns
\* a Modbus error into HTTP 502 (any other exception is HTTP 500), write_modbus
\* returns its count, read_modbus calls log_readings(source="read")
RestCloseDone ==
    /\ rest.pc = "closing"
    /\ \E co \in CloseOutcomes :
         LET e == IF CloseRaises(co) THEN "other" ELSE rest.pending
             r == [rest EXCEPT !.transport = "closed", !.closeCalls = @ + 1,
                               !.closeRaised = CloseRaises(co), !.pending = e]
             recs == LogRecords(logger, rest.readings, "read", clock)
         IN IF e # "none"
            THEN /\ rest' = [r EXCEPT !.status = IF e = "operation" THEN 502 ELSE 500,
                                      !.pc = "returned"]
                 /\ UNCHANGED <<logJob, clock>>
            ELSE IF rest.op = "write"
            THEN /\ rest' = [r EXCEPT !.status = 200, !.body = <<Len(rest.writes)>>,
                                      !.pc = "returned"]
                 /\ UNCHANGED <<logJob, clock>>
            ELSE /\ clock' = clock + 1
                 /\ IF recs = <<>>
                    THEN /\ rest' = [r EXCEPT !.logCalls = @ + 1, !.status = 200,
                                              !.logTs = clock, !.logResult = "skipped",
                                              !.body = rest.readings, !.pc = "returned"]
                         /\ UNCHANGED logJob
                    ELSE /\ rest' = [r EXCEPT !.logCalls = @ + 1, !.logTs = clock,
                                              !.pc = "logging"]
                         /\ logJob' = [state |-> "pending", records |-> recs]
    /\ UNCHANGED <<sessionOnly, mem, store>>

\* to_thread returned (a failure of the write is swallowed): {"data": readings}
RestLogDone ==
    /\ rest.pc = "logging"
    /\ logJob.state \in {"ok", "err"}
    /\ rest' = [rest EXCEPT !.status = 200, !.body = rest.readings,
                            !.logResult = logJob.state, !.pc = "returned"]
    /\ logJob' = NoJob
    /\ UNCHANGED <<sessionOnly, mem, store, clock>>

\* the process serves one-shot requests; get_data_logger() builds the logger
\* from the environment
RestInit ==
    /\ phase = "Idle"
    /\ config = NoConfig
    /\ logger \in LoggerConfigs
    /\ devState = "never"
    /\ mem = InitMem
    /\ locked = FALSE
    /\ waiters = <<>>
    /\ inCS = {}
    /\ stop = FALSE
    /\ pc = [d \in Duties |-> "none"]
    /\ cancelReq = {}
    /\ pIdx = 0
    /\ payload = <<>>
    /\ pTs = 0
    /\ cWrites = <<>>
    /\ cIdx = 0
    /\ logJob = NoJob
    /\ store = <<>>
    /\ out = <<>>
    /\ clock = 1
    /\ cycles = 0
    /\ received = 0
    /\ wireOps = 0
    /\ cyc = NoCyc
    /\ cmdg = NoCmd
    /\ lastAppend = NoAppend
    /\ sess = InitSess
    /\ rest = NoRest
    /\ db = NoDb
    /\ chan = NoChan
    /\ anom = NoAnom
    /\ glob = NoGlob
    /\ scorer = NoScore

RestNext ==
    \/ \E ts \in ReadPayloads : ReadModbus(ts)
    \/ \E ws \in WritePayloads : WriteModbus(ws)
    \/ RestConnectDone
    \/ RestOpDone
    \/ RestCloseDone
    \/ RestLogDone
    \/ WriteRecords

RestSpec == RestInit /\ [][RestNext]_vars

-----------------------------------------------------------------------------
(* data_logger.py: one SQLiteDataLogger used by several coroutines at once.  *)
(* Each call runs its database work on a worker thread (asyncio.to_thread);  *)
(* an action is one step of a coroutine or of its thread.                    *)

StoreLoggerConfigs ==
    {[enabled |-> TRUE, kinds |-> DEFAULT_KINDS],
     [enabled |-> TRUE, kinds |-> ALLOWED_KINDS],
     [enabled |-> FALSE, kinds |-> DEFAULT_KINDS]}

\* an entry of a readings list
Reading(kind, address, values) == [address |-> address, kind |-> kind, values |-> values]

\* calls of log_readings: two overlapping register readings, a coil and an
\* input reading, no reading, a coil reading and a reading without values
LogCalls ==
    {[readings |-> <<Reading("holding", 0, <<7, 8>>), Reading("holding", 1, <<9>>)>>,
      source |-> "monitor"],
     [readings |-> <<Reading("coil", 1, <<1>>), Reading("input", 0, <<3>>)>>,
      source |-> "read"],
     [readings |-> <<>>, source |-> "read"],
     [readings |-> <<Reading("coil", 1, <<1>>), Reading("holding", 0, <<>>)>>,
      source |-> "monitor"]}

SeriesKey(conn, kind, address) == [conn |-> conn, kind |-> kind, address |-> address]

\* calls of fetch_recent_values; limit is AnomalyRequest.window (at least 3)
FetchCalls ==
    {[key |-> SeriesKey(Connection, "holding", 1), limit |-> 3],
     [key |-> SeriesKey("dev2", "holding", 1), limit |-> 3]}

\* the rows the WHERE clause of _fetch_recent_values_sync selects
Matching(rows, key) ==
    {i \in 1..Len(rows) : /\ rows[i].conn = key.conn
                          /\ rows[i].kind = key.kind
                          /\ rows[i].address = key.address}

\* LIMIT ?: a negative limit is no limit in SQLite
LimitCount(n, limit) == IF limit < 0 THEN n ELSE Min(limit, n)

\* faulty variant: ORDER BY timestamp ASC
RecentPicks_Oldest(rows, key, limit) ==
    LET M == Matching(rows, key)
        n == LimitCount(Cardinality(M), limit)
    IN {p \in [1..n -> M] :
          /\ \A j, k \in 1..n : j < k => p[j] # p[k]
          /\ \A j, k \in 1..n : j < k => rows[p[j]].timestamp <= rows[p[k]].timestamp
          /\ \A i \in M : (\A j \in 1..n : p[j] # i) =>
                \A j \in 1..n : rows[i].timestamp >= rows[p[j]].timestamp}

\* ORDER BY timestamp DESC LIMIT ?: the row numbers the SELECT may return, in
\* order; rows with the same timestamp come in an order SQL leaves open
RecentPicks(rows, key, limit) ==
    LET M == Matching(rows, key)
        n == LimitCount(Cardinality(M), limit)
    IN {p \in [1..n -> M] :
          /\ \A j, k \in 1..n : j < k => p[j] # p[k]
          /\ \A j, k \in 1..n : j < k => rows[p[j]].timestamp >= rows[p[k]].timestamp
          /\ \A i \in M : (\A j \in 1..n : p[j] # i) =>
                \A j \in 1..n : rows[i].timestamp <= rows[p[j]].timestamp}

\* fetch_recent_values: the values of the thread, or [] when it raised
FetchReturn(raised, values) == IF raised THEN <<>> ELSE values

\* the caller c, and what the logger's actions leave alone
Call(c) == IF c \in DOMAIN db.call THEN db.call[c] ELSE NoCall
SetCall(c, r) == [db EXCEPT !.call = IF c \in DOMAIN @ THEN [@ EXCEPT ![c] = r]
                                                       ELSE Append(@, r)]
notStore == <<phase, config, logger, devState, mem, locked, waiters, inCS, stop, pc,
              cancelReq, pIdx, payload, pTs, cWrites, cIdx, logJob, out, cycles,
              received, wireOps, cyc, cmdg, lastAppend, sess, rest, scorer, chan, anom,
              glob>>

\* log_readings up to its await: the early returns, the records, to_thread
LogReadings(c, b) ==
    /\ c = db.calls + 1
    /\ LET recs == LogRecords(logger, b.readings, b.source, clock) IN
       db' = [SetCall(c, [NoCall EXCEPT !.op = "log", !.readings = b.readings,
                                        !.source = b.source, !.ts = clock,
                                        !.recs = recs,
                                        !.pc = IF recs = <<>> THEN "returned"
                                               ELSE "thread"])
              EXCEPT !.calls = @ + 1]
    /\ clock' = clock + 1
    /\ UNCHANGED <<notStore, store>>

\* fetch_recent_values up to its await: [] when disabled, else to_thread
FetchRecentValues(c, q) ==
    /\ c = db.calls + 1
    /\ db' = [SetCall(c, [NoCall EXCEPT !.op = "fetch", !.key = q.key,
                                        !.limit = q.limit,
                                        !.pc = IF logger.enabled THEN "thread"
                                               ELSE "returned"])
              EXCEPT !.calls = @ + 1]
    /\ UNCHANGED <<notStore, store, clock>>

\* _ensure_initialized: the test of _initialized outside the lock
EnsureInitialized(c) ==
    /\ Call(c).pc = "thread"
    /\ db' = SetCall(c, [Call(c) EXCEPT !.pc = IF db.initialized THEN "exec"
                                                   ELSE "lockwait"])
    /\ UNCHANGED <<notStore, store, clock>>

\* faulty variant: _initialized is not tested again under the lock
AcquireInitLock_NoRecheck(c) ==
    /\ Call(c).pc = "lockwait"
    /\ db.initLock = 0
    /\ db' = [SetCall(c, [Call(c) EXCEPT !.pc = "creating"])
              EXCEPT !.initLock = c]
    /\ UNCHANGED <<notStore, store, clock>>

\* `with self._init_lock`: the thread gets the lock and tests _initialized again
AcquireInitLock(c) ==
    /\ Call(c).pc = "lockwait"
    /\ db.initLock = 0
    /\ db' = IF db.initialized
             THEN SetCall(c, [Call(c) EXCEPT !.pc = "exec"])
             ELSE [SetCall(c, [Call(c) EXCEPT !.pc = "creating"])
                   EXCEPT !.initLock = c]
    /\ UNCHANGED <<notStore, store, clock>>

\* mkdir, CREATE TABLE, CREATE INDEX, commit, then _initialized = True and the
\* with block releases the lock; or an exception leaves the with block (the
\* lock is released, _initialized stays False) and the call ends as after a
\* failure of its statement
CreateSchema(c) ==
    /\ Call(c).pc = "creating"
    /\ \E r \in {"ok", "err"} :
         db' = IF r = "ok"
               THEN [SetCall(c, [Call(c) EXCEPT !.pc = "exec"])
                     EXCEPT !.created = @ + 1, !.initialized = TRUE, !.initLock = 0]
               ELSE [SetCall(c, [Call(c) EXCEPT
                                   !.pc = "returned", !.raised = TRUE,
                                   !.result = FetchReturn(TRUE, <<>>)])
                     EXCEPT !.initLock = 0]
    /\ UNCHANGED <<notStore, store, clock>>

\* _write_records: executemany and commit, one batch, or an exception, which
\* log_readings logs before it returns None
WriteRecordsOn(c) ==
    /\ Call(c).pc = "exec"
    /\ Call(c).op = "log"
    /\ \E r \in {"ok", "err"} :
         /\ db' = SetCall(c, [Call(c) EXCEPT !.pc = "returned",
                                                !.raised = (r = "err"),
                                                !.at = Len(store),
                                                !.schemaAtExec = db.created])
         /\ store' = IF r = "ok" THEN store \o Call(c).recs ELSE store
    /\ UNCHANGED <<notStore, clock>>

\* _fetch_recent_values_sync: the SELECT and the conversion of its rows, or an
\* exception; fetch_recent_values returns the values, or [] after the exception
FetchRecentValuesSync(c) ==
    /\ Call(c).pc = "exec"
    /\ Call(c).op = "fetch"
    /\ \/ \E p \in RecentPicks(store, Call(c).key, Call(c).limit) :
            db' = SetCall(c, [Call(c) EXCEPT
                                !.pc = "returned",
                                !.picked = p,
                                !.at = Len(store),
                                !.result = FetchReturn(FALSE,
                                             [j \in DOMAIN p |-> store[p[j]].value]),
                                !.schemaAtExec = db.created])
       \/ db' = SetCall(c, [Call(c) EXCEPT !.pc = "returned",
                                              !.raised = TRUE,
                                              !.at = Len(store),
                                              !.result = FetchReturn(TRUE, <<>>),
                                              !.schemaAtExec = db.created])
    /\ UNCHANGED <<notStore, store, clock>>

\* the process has one logger, built from the environment, and no session
StoreInit ==
    /\ phase = "Idle"
    /\ config = NoConfig
    /\ logger \in StoreLoggerConfigs
    /\ devState = "never"
    /\ mem = InitMem
    /\ locked = FALSE
    /\ waiters = <<>>
    /\ inCS = {}
    /\ stop = FALSE
    /\ pc = [d \in Duties |-> "none"]
    /\ cancelReq = {}
    /\ pIdx = 0
    /\ payload = <<>>
    /\ pTs = 0
    /\ cWrites = <<>>
    /\ cIdx = 0
    /\ logJob = NoJob
    /\ store = <<>>
    /\ out = <<>>
    /\ clock = 1
    /\ cycles = 0
    /\ received = 0
    /\ wireOps = 0
    /\ cyc = NoCyc
    /\ cmdg = NoCmd
    /\ lastAppend = NoAppend
    /\ sess = InitSess
    /\ rest = NoRest
    /\ db = NoDb
    /\ chan = NoChan
    /\ anom = NoAnom
    /\ glob = NoGlob
    /\ scorer = NoScore

StoreNext ==
    \/ \E c \in Callers, b \in LogCalls : LogReadings(c, b)
    \/ \E c \in Callers, q \in FetchCalls : FetchRecentValues(c, q)
    \/ \E c \in Callers : EnsureInitialized(c)
    \/ \E c \in Callers : AcquireInitLock(c)
    \/ \E c \in Callers : CreateSchema(c)
    \/ \E c \in Callers : WriteRecordsOn(c)
    \/ \E c \in Callers : FetchRecentValuesSync(c)

StoreSpec == StoreInit /\ [][StoreNext]_vars

-----------------------------------------------------------------------------
(* api.py: a query of the anomaly handlers on the logger of a monitor        *)
(* session that has ended (get_data_logger() returns the logger the session  *)
(* built)                                                                    *)

\* the series of the first configured register, window 3
SessionQueries == {[key |-> SeriesKey(Connection, "holding", 0), limit |-> 3]}

\* fetch_recent_values, from the call to its return: [] when disabled, the
\* values of the SELECT, or [] after an exception of the thread
FetchAfterSession(q) ==
    /\ phase = "Closed"
    /\ db.calls = 0
    /\ LET k == [NoCall EXCEPT !.op = "fetch", !.key = q.key, !.limit = q.limit,
                               !.at = Len(store), !.pc = "returned"]
       IN IF ~logger.enabled
          THEN db' = [SetCall(1, k) EXCEPT !.calls = 1]
          ELSE \/ \E p \in RecentPicks(store, q.key, q.limit) :
                    db' = [SetCall(1, [k EXCEPT
                                         !.picked = p,
                                         !.result = FetchReturn(FALSE,
                                            [j \in DOMAIN p |-> store[p[j]].value])])
                           EXCEPT !.calls = 1]
               \/ db' = [SetCall(1, [k EXCEPT !.raised = TRUE,
                                              !.result = FetchReturn(TRUE, <<>>)])
                         EXCEPT !.calls = 1]
    /\ UNCHANGED <<notStore, store, clock>>

MonitorStoreNext ==
    \/ Next
    \/ \E q \in SessionQueries : FetchAfterSession(q)

MonitorStoreSpec == Init /\ [][MonitorStoreNext]_vars

-----------------------------------------------------------------------------
(* monitor.py: the ways out of run_monitor_session when the client can go    *)
(* away at any time.  send_json on a connection that is gone returns or      *)
(* raises (an exception that is no ModbusOperationError), depending on the   *)
(* server; the client's close() returns an awaitable or, being a plain       *)
(* function, makes `await self._client.close()` raise after the transport    *)
(* was released.  chan.raised tells what run_monitor_session raised to       *)
(* websocket_monitor.                                                        *)

notChan == <<phase, config, logger, devState, mem, locked, waiters, inCS, stop, pc,
             cancelReq, pIdx, payload, pTs, cWrites, cIdx, logJob, store, out, clock,
             cycles, received, wireOps, cyc, cmdg, lastAppend, sess, rest, db, scorer,
             anom, glob>>

\* inbound messages of the session: a ping and a write command
ExitMessages ==
    {Msg("ping", FALSE, 0, <<>>, <<>>),
     Msg("write", FALSE, 0, <<>>, <<W_h>>)}

\* the client goes away or closes the connection
ClientGone ==
    /\ phase \in {"Configured", "Connecting", "Active", "ClosingErr"}
    /\ ~chan.gone
    /\ chan' = [chan EXCEPT !.gone = TRUE]
    /\ UNCHANGED notChan

\* websocket.iter_text() ends: it ends when the connection is gone
IterTextEnds ==
    /\ chan.gone
    /\ CmdDisconnect

\* the send_json a duty is suspended in raises: the exception leaves the task
SendRaises(d) ==
    /\ chan.gone
    /\ Running(d)
    /\ pc[d] \in (IF d = "poll" THEN {"send_status", "send_update", "send_error"}
                  ELSE {"sent"})
    /\ SetPc(d, "failed")
    /\ UNCHANGED <<phase, config, logger, devState, mem, lockVars, stop, cancelReq,
                   pollLocals, cmdLocals, storeVars, out, clock, cycles, received,
                   wireOps, cyc, cmdg, lastAppend, sess>>
    /\ UNCHANGED <<rest, db, scorer, chan, anom, glob>>

\* connect raised ModbusConnectionError and the send_json of the except clause
\* raises: the exception leaves run_monitor_session
ConnectFailedSendRaises ==
    /\ phase = "Connecting"
    /\ chan.gone
    /\ ConnectRaises(FALSE)
    /\ sess' = [sess EXCEPT !.connect = "failed"]
    /\ Emit(OutMsg("error", "session", 0, <<>>))
    /\ phase' = "Closed"
    /\ chan' = [chan EXCEPT !.raised = "send"]
    /\ UNCHANGED <<config, logger, devState, mem, lockVars, stop, pc, cancelReq,
                   pollLocals, cmdLocals, storeVars, clock, cycles, received, wireOps,
                   cyc, cmdg, lastAppend>>
    /\ UNCHANGED <<rest, db, scorer, anom, glob>>

\* asyncio.wait returned and session.close() raised after the transport was
\* released: its exception replaces the one of a duty, if any
SessionWakeCloseRaises ==
    /\ phase = "Active"
    /\ WaitReturns
    /\ stop' = TRUE
    /\ cancelReq' = ToCancel
    /\ devState' = TcpSessionExit(devState)
    /\ phase' = "ClosingErr"
    /\ sess' = [sess EXCEPT !.pendingAtWake = {d \in Duties : ~Finished(d)},
                            !.raisedAtWake = (Raised # {}),
                            !.closeCalls = @ + 1]
    /\ UNCHANGED <<config, logger, mem, lockVars, pc, pollLocals, cmdLocals,
                   storeVars, out, clock, cycles, received, wireOps, cyc, cmdg,
                   lastAppend>>
    /\ UNCHANGED <<rest, db, scorer, chan, anom, glob>>

\* the task that runs run_monitor_session is cancelled while it is suspended in
\* asyncio.wait: CancelledError passes the finally of tcp_session, which closes
\* the session, and passes `except Exception`; the duties are left running
SessionCancelled ==
    /\ phase = "Active"
    /\ devState' = TcpSessionExit(devState)
    /\ phase' = "Closed"
    /\ sess' = [sess EXCEPT !.closeCalls = @ + 1]
    /\ chan' = [chan EXCEPT !.raised = "cancelled"]
    /\ UNCHANGED <<config, logger, mem, lockVars, stop, pc, cancelReq, pollLocals,
                   cmdLocals, storeVars, out, clock, cycles, received, wireOps, cyc,
                   cmdg, lastAppend>>
    /\ UNCHANGED <<rest, db, scorer, anom, glob>>

\* faulty variant: the except clause raises again after sending the error
SessionReturnRaises_Always ==
    /\ phase = "ClosingErr"
    /\ phase' = "Closed"
    /\ Emit(OutMsg("error", "session", 0, <<>>))
    /\ sess' = [sess EXCEPT !.termDevState = devState]
    /\ chan' = [chan EXCEPT !.raised = "send"]
    /\ UNCHANGED <<config, logger, devState, mem, lockVars, stop, pc, cancelReq,
                   pollLocals, cmdLocals, storeVars, clock, cycles, received,
                   wireOps, cyc, cmdg, lastAppend>>
    /\ UNCHANGED <<rest, db, scorer, anom, glob>>

\* the send_json of `except Exception` raises: the exception leaves
\* run_monitor_session
SessionReturnRaises ==
    /\ phase = "ClosingErr"
    /\ chan.gone
    /\ phase' = "Closed"
    /\ Emit(OutMsg("error", "session", 0, <<>>))
    /\ sess' = [sess EXCEPT !.termDevState = devState]
    /\ chan' = [chan EXCEPT !.raised = "send"]
    /\ UNCHANGED <<config, logger, devState, mem, lockVars, stop, pc, cancelReq,
                   pollLocals, cmdLocals, storeVars, clock, cycles, received,
                   wireOps, cyc, cmdg, lastAppend>>
    /\ UNCHANGED <<rest, db, scorer, anom, glob>>

ExitNext ==
    \/ \E m \in FirstMessages : Handshake(m)
    \/ StartSession
    \/ ConnectDone
    \/ ConnectFailedSendRaises
    \/ PollStep
    \/ CmdStep
    \/ \E m \in ExitMessages : CmdReceive(m)
    \/ ClientGone
    \/ IterTextEnds
    \/ \E d \in Duties : SendRaises(d)
    \/ WriteRecords
    \/ SessionWake
    \/ SessionWakeCloseRaises
    \/ SessionCancelled
    \/ SessionReturn
    \/ SessionReturnRaises
    \/ \E d \in Duties : DutyCancelled(d)

ExitSpec == Init /\ [][ExitNext]_vars

-----------------------------------------------------------------------------
(* data_logger.py: compute_z_score; api.py: _autocorr, _estimate_period.     *)
(* The statistics module computes mean and variance exactly, so they are     *)
(* kept as fractions [num, den] with den > 0; a stdev is kept as its square, *)
(* a score as its sign and its square.                                       *)

\* Python's None, and float("-inf") as a fraction below every fraction
None == [none |-> TRUE]
NegInf == [num |-> -1, den |-> 0]
\* register values of the windows; min_samples: 3 and 4 (AnomalyRequest allows
\* 3..10000) and 2, which only a direct caller of compute_z_score can pass
ZScoreValues == {0, 10, 1000}
PeriodValues == {0, 1, 2}
MinSamplesValues == {2, 3, 4}

\* the sequences over V of length 0..n
Windows(V, n) == UNION {[1..k -> V] : k \in 0..n}

RECURSIVE Sum(_)
Sum(xs) == IF xs = <<>> THEN 0 ELSE Head(xs) + Sum(Tail(xs))

Fraction(n, d) == [num |-> n, den |-> d]
Sign(x) == IF x > 0 THEN 1 ELSE IF x < 0 THEN -1 ELSE 0

\* statistics.mean
Mean(xs) == Fraction(Sum(xs), Len(xs))

\* the square of statistics.stdev (sample variance)
StdevSq(xs) ==
    LET n == Len(xs)
        sq == [i \in 1..n |-> xs[i] * xs[i]]
    IN Fraction(n * Sum(sq) - Sum(xs) * Sum(xs), n * (n - 1))

\* (x - mean) / stdev for stdev # 0
Standardized(x, xs) ==
    LET n == Len(xs)
        d == x * n - Sum(xs)
    IN [sign |-> Sign(d), sq |-> Fraction(d * d * (n - 1), n * StdevSq(xs).num)]

NoScoreResult == [score |-> None, mean |-> None, stdev |-> None]

\* faulty variant: the history is the whole window, the scored point included
ComputeZScore_WholeWindow(values, min_samples) ==
    IF Len(values) < min_samples THEN NoScoreResult
    ELSE IF Len(values) < 3 THEN NoScoreResult
    ELSE LET history == values IN
         IF Len(history) < 2 THEN NoScoreResult
         ELSE IF StdevSq(history).num = 0
              THEN [score |-> [sign |-> 0, sq |-> Fraction(0, 1)],
                    mean |-> Mean(history), stdev |-> StdevSq(history)]
              ELSE [score |-> Standardized(values[1], history),
                    mean |-> Mean(history), stdev |-> StdevSq(history)]

\* faulty variant: a zero stdev gives no score
ComputeZScore_NoneAtZero(values, min_samples) ==
    IF Len(values) < min_samples THEN NoScoreResult
    ELSE IF Len(values) < 3 THEN NoScoreResult
    ELSE LET history == Tail(values) IN
         IF Len(history) < 2 THEN NoScoreResult
         ELSE IF StdevSq(history).num = 0
              THEN [score |-> None, mean |-> Mean(history), stdev |-> StdevSq(history)]
              ELSE [score |-> Standardized(values[1], history),
                    mean |-> Mean(history), stdev |-> StdevSq(history)]

\* compute_z_score
ComputeZScore(values, min_samples) ==
    IF Len(values) < min_samples THEN NoScoreResult
    ELSE IF Len(values) < 3 THEN NoScoreResult
    ELSE LET history == Tail(values) IN
         IF Len(history) < 2 THEN NoScoreResult
         ELSE IF StdevSq(history).num = 0
              THEN [score |-> [sign |-> 0, sq |-> Fraction(0, 1)],
                    mean |-> Mean(history), stdev |-> StdevSq(history)]
              ELSE [score |-> Standardized(values[1], history),
                    mean |-> Mean(history), stdev |-> StdevSq(history)]

\* _autocorr; numerator and denominator are both multiplied by len(values)^2
Autocorr(values, lag) ==
    LET n == Len(values)
        size == n - lag
        dev == [i \in 1..n |-> n * values[i] - Sum(values)]
        denom == Sum([i \in 1..n |-> dev[i] * dev[i]])
    IN IF size <= 1 THEN Fraction(0, 1)
       ELSE IF denom = 0 THEN Fraction(0, 1)
       ELSE Fraction(Sum([i \in 1..size |-> dev[i] * dev[i + lag]]), denom)

\* a > b for fractions
Greater(a, b) == a.num * b.den > b.num * a.den

\* faulty variant: `corr >= best_corr`, the last of the best lags wins
BestLag_Last(values, lag, max_lag, best_lag, best_corr) ==
    LET better(a, b) == ~Greater(b, a)
        pick[l \in 1..(max_lag + 1)] ==
            IF l = 1 THEN [lag |-> best_lag, corr |-> best_corr]
            ELSE LET c == Autocorr(values, l - 1) IN
                 IF better(c, pick[l - 1].corr)
                 THEN [lag |-> l - 1, corr |-> c]
                 ELSE pick[l - 1]
    IN pick[max_lag + 1].lag

\* the for loop of _estimate_period from lag on
RECURSIVE BestLag(_, _, _, _, _)
BestLag(values, lag, max_lag, best_lag, best_corr) ==
    IF lag > max_lag THEN best_lag
    ELSE LET corr == Autocorr(values, lag) IN
         IF Greater(corr, best_corr)
         THEN BestLag(values, lag + 1, max_lag, lag, corr)
         ELSE BestLag(values, lag + 1, max_lag, best_lag, best_corr)

Max(a, b) == IF a > b THEN a ELSE b

\* _estimate_period
EstimatePeriod(values, max_lag) ==
    IF Len(values) < 4 THEN 2
    ELSE LET ml == Max(1, Min(max_lag, Len(values) - 2)) IN
         Max(2, BestLag(values, 1, ml, 1, NegInf))

notScorer == <<phase, config, logger, devState, mem, locked, waiters, inCS, stop, pc,
               cancelReq, pIdx, payload, pTs, cWrites, cIdx, logJob, store, out, clock,
               cycles, received, wireOps, cyc, cmdg, lastAppend, sess, rest, db,
               chan, anom, glob>>

\* compute_z_score(values, min_samples) returns
ZScoreReturn ==
    /\ scorer.pc = "called"
    /\ scorer.fn = "zscore"
    /\ scorer' = [scorer EXCEPT !.pc = "returned",
                                !.result = ComputeZScore(scorer.values, scorer.minSamples)]
    /\ UNCHANGED notScorer

\* _estimate_period(values, max_lag=min(100, len(values) - 2)) returns
PeriodReturn ==
    /\ scorer.pc = "called"
    /\ scorer.fn = "period"
    /\ scorer' = [scorer EXCEPT !.pc = "returned",
                                !.result = EstimatePeriod(scorer.values,
                                              Min(100, Len(scorer.values) - 2))]
    /\ UNCHANGED notScorer

\* no session and no request; one scoring function was called with a window
ScoreInit ==
    /\ phase = "Idle"
    /\ config = NoConfig
    /\ logger = NoLogger
    /\ devState = "never"
    /\ mem = InitMem
    /\ locked = FALSE
    /\ waiters = <<>>
    /\ inCS = {}
    /\ stop = FALSE
    /\ pc = [d \in Duties |-> "none"]
    /\ cancelReq = {}
    /\ pIdx = 0
    /\ payload = <<>>
    /\ pTs = 0
    /\ cWrites = <<>>
    /\ cIdx = 0
    /\ logJob = NoJob
    /\ store = <<>>
    /\ out = <<>>
    /\ clock = 1
    /\ cycles = 0
    /\ received = 0
    /\ wireOps = 0
    /\ cyc = NoCyc
    /\ cmdg = NoCmd
    /\ lastAppend = NoAppend
    /\ sess = InitSess
    /\ rest = NoRest
    /\ db = NoDb
    /\ chan = NoChan
    /\ anom = NoAnom
    /\ glob = NoGlob
    /\ \/ \E vs \in Windows(ZScoreValues, MaxWindow), ms \in MinSamplesValues :
            scorer = [NoScore EXCEPT !.pc = "called", !.fn = "zscore",
                                     !.values = vs, !.minSamples = ms]
       \/ \E vs \in Windows(PeriodValues, MaxWindow) :
            scorer = [NoScore EXCEPT !.pc = "called", !.fn = "period", !.values = vs]

ScoreNext ==
    \/ ZScoreReturn
    \/ PeriodReturn

ScoreSpec == ScoreInit /\ [][ScoreNext]_vars

-----------------------------------------------------------------------------
(* api.py: anomaly_zscore and anomaly_stl.  One call of one handler over a   *)
(* database chosen at the start; a step is the code between two awaits of    *)
(* fetch_recent_values.  STL(values, period, robust).fit() belongs to        *)
(* statsmodels: it raises, or returns one residual per value; the residuals  *)
(* are taken to be the values themselves (no trend, no season) or all zero   *)
(* (a perfect fit).                                                          *)

\* every variable but anom, glob and clock before any session or request
NoActivity ==
    /\ phase = "Idle"
    /\ config = NoConfig
    /\ logger = NoLogger
    /\ devState = "never"
    /\ mem = InitMem
    /\ locked = FALSE
    /\ waiters = <<>>
    /\ inCS = {}
    /\ stop = FALSE
    /\ pc = [d \in Duties |-> "none"]
    /\ cancelReq = {}
    /\ pIdx = 0
    /\ payload = <<>>
    /\ pTs = 0
    /\ cWrites = <<>>
    /\ cIdx = 0
    /\ logJob = NoJob
    /\ store = <<>>
    /\ out = <<>>
    /\ cycles = 0
    /\ received = 0
    /\ wireOps = 0
    /\ cyc = NoCyc
    /\ cmdg = NoCmd
    /\ lastAppend = NoAppend
    /\ sess = InitSess
    /\ rest = NoRest
    /\ db = NoDb
    /\ scorer = NoScore
    /\ chan = NoChan

notAnom == <<phase, config, logger, devState, mem, locked, waiters, inCS, stop, pc,
             cancelReq, pIdx, payload, pTs, cWrites, cIdx, logJob, store, out, clock,
             cycles, received, wireOps, cyc, cmdg, lastAppend, sess, rest, db, scorer,
             chan, glob>>

\* the series of the database: (kind, address) of the registers of T_h0, T_c1
AnomKeys == {<<"holding", 0>>, <<"holding", 1>>, <<"coil", 1>>}
\* stored values of one series, newest first
LongSeries == <<9, 1, 0, 1, 0, 1>>
SeriesChoices ==
    [AnomKeys ->
        {<<>>, <<3, 0>>, <<3, 3, 3, 3>>, LongSeries}]
\* payload.targets, payload.window and payload.min_samples (3 <= min_samples <= window)
AnomTargetLists == {<<>>, <<T_c1>>, <<T_h0, T_c1>>}
AnomWindows == {3, MaxWindow}
AnomMinSamples == {3, 4}
\* what STL(...).fit() does
StlOutcomes == {"raise", "values", "zeros"}

Reverse(s) == [i \in 1..Len(s) |-> s[Len(s) + 1 - i]]

\* _fetch_recent_values_sync: the `limit` newest values of a series, newest first
RecentValues(series, kind, address, limit) ==
    LET all == series[<<kind, address>>] IN SubSeq(all, 1, Min(limit, Len(all)))

\* result.resid of a fit that did not raise
Residuals(values, o) ==
    IF o = "values" THEN values ELSE [i \in 1..Len(values) |-> 0]

NoArrays == [values |-> <<>>, z_scores |-> <<>>, sample_counts |-> <<>>,
             mean |-> <<>>, stdev |-> <<>>]
\* the appends of one pass of the offset loop
Appends(v, z, n, m, s) ==
    [values |-> v, z_scores |-> z, sample_counts |-> n, mean |-> m, stdev |-> s]
Appended(cur, a) ==
    [values |-> cur.values \o a.values,
     z_scores |-> cur.z_scores \o a.z_scores,
     sample_counts |-> cur.sample_counts \o a.sample_counts,
     mean |-> cur.mean \o a.mean,
     stdev |-> cur.stdev \o a.stdev]

\* a stored value as an entry of the list of latest values (a float or None)
Val(v) == [val |-> v]

\* `if not values`
NoValuesPoint == Appends(<<None>>, <<None>>, <<0>>, <<None>>, <<None>>)
\* value and sample count reported, no score
UnscoredPoint(v, n) == Appends(<<Val(v)>>, <<None>>, <<n>>, <<None>>, <<None>>)

\* anomaly_zscore: one pass of the offset loop after the fetch
ZScorePoint(values, min_samples) ==
    IF values = <<>> THEN NoValuesPoint
    ELSE LET r == ComputeZScore(values, min_samples) IN
         Appends(<<Val(values[1])>>, <<r.score>>, <<Len(values)>>, <<r.mean>>, <<r.stdev>>)

\* the fit is reached: there are values, and at least min_samples of them
FitReached(fetched, min_samples) ==
    fetched # <<>> /\ Len(fetched) >= min_samples

\* faulty variant: the exception of the fit is not caught
StlRaises_Uncaught(fetched, min_samples, o) ==
    FitReached(fetched, min_samples) /\ o = "raise"

\* anomaly_stl: the exception of STL(...).fit() is caught by `except Exception`
StlRaises(fetched, min_samples, o) == FALSE

\* faulty variant: a failed fit appends the score only
StlPoint_ShortArrays(fetched, min_samples, o) ==
    LET values == Reverse(fetched)
        n == Len(values)
    IN IF values = <<>> THEN NoValuesPoint
       ELSE IF n < min_samples THEN UnscoredPoint(values[n], n)
       ELSE IF o = "raise"
            THEN Appends(<<Val(values[n])>>, <<None>>, <<n>>, <<>>, <<>>)
       ELSE LET residuals == Residuals(values, o)
                history == SubSeq(residuals, 1, Len(residuals) - 1)
            IN IF Len(residuals) < 2 THEN UnscoredPoint(values[n], n)
               ELSE IF Len(history) < 2 THEN UnscoredPoint(values[n], n)
               ELSE IF StdevSq(history).num = 0
                    THEN Appends(<<Val(values[n])>>,
                                 <<[sign |-> 0, sq |-> Fraction(0, 1)]>>, <<n>>,
                                 <<Mean(history)>>, <<StdevSq(history)>>)
                    ELSE Appends(<<Val(values[n])>>,
                                 <<Standardized(residuals[Len(residuals)], history)>>,
                                 <<n>>, <<Mean(history)>>, <<StdevSq(history)>>)

\* anomaly_stl: one pass of the offset loop after the fetch, the fit ending as o
StlPoint(fetched, min_samples, o) ==
    LET values == Reverse(fetched)
        n == Len(values)
    IN IF values = <<>> THEN NoValuesPoint
       ELSE IF n < min_samples THEN UnscoredPoint(values[n], n)
       ELSE IF o = "raise" THEN UnscoredPoint(values[n], n)
       ELSE LET residuals == Residuals(values, o)
                history == SubSeq(residuals, 1, Len(residuals) - 1)
            IN IF Len(residuals) < 2 THEN UnscoredPoint(values[n], n)
               ELSE IF Len(history) < 2 THEN UnscoredPoint(values[n], n)
               ELSE IF StdevSq(history).num = 0
                    THEN Appends(<<Val(values[n])>>,
                                 <<[sign |-> 0, sq |-> Fraction(0, 1)]>>, <<n>>,
                                 <<Mean(history)>>, <<StdevSq(history)>>)
                    ELSE Appends(<<Val(values[n])>>,
                                 <<Standardized(residuals[Len(residuals)], history)>>,
                                 <<n>>, <<Mean(history)>>, <<StdevSq(history)>>)

\* faulty variant: anomaly_stl does not test STL
BackendMissing_NoTest(variant, backend) == FALSE

\* `if STL is None` at the head of anomaly_stl; anomaly_zscore has no such test
BackendMissing(variant, backend) == variant = "stl" /\ ~backend

\* the handler is entered: HTTPException 503, or get_data_logger() and the
\* loop over the targets
AnomalyEnter ==
    /\ anom.pc = "called"
    /\ IF BackendMissing(anom.variant, anom.backend)
       THEN anom' = [anom EXCEPT !.pc = "raised", !.status = 503]
       ELSE anom' = [anom EXCEPT !.pc = "loop", !.gotLogger = TRUE, !.tIdx = 1,
                                 !.off = 0, !.cur = NoArrays]
    /\ UNCHANGED notAnom

\* `await data_logger.fetch_recent_values(...)` for the next offset of the
\* target; a failing query returns []
AnomalyFetch ==
    /\ anom.pc = "loop"
    /\ anom.tIdx <= Len(anom.targets)
    /\ anom.off < anom.targets[anom.tIdx].count
    /\ \E raised \in BOOLEAN :
         LET t == anom.targets[anom.tIdx] IN
         anom' = [anom EXCEPT
                    !.pc = "fetched",
                    !.queries = @ + 1,
                    !.fetched = FetchReturn(raised,
                                   RecentValues(anom.series, t.kind,
                                                t.address + anom.off, anom.window))]
    /\ UNCHANGED notAnom

\* the rest of the pass: the appends to the five lists
AnomalyPoint ==
    /\ anom.pc = "fetched"
    /\ \E o \in StlOutcomes :
         LET fit == anom.variant = "stl" /\ FitReached(anom.fetched, anom.minSamples)
             a == IF anom.variant = "zscore"
                  THEN ZScorePoint(anom.fetched, anom.minSamples)
                  ELSE StlPoint(anom.fetched, anom.minSamples, o)
         IN IF anom.variant = "stl" /\ StlRaises(anom.fetched, anom.minSamples, o)
            THEN anom' = [anom EXCEPT !.pc = "raised", !.status = 500]
            ELSE anom' = [anom EXCEPT
                            !.pc = "loop",
                            !.off = @ + 1,
                            !.cur = Appended(@, a),
                            !.fits = IF fit
                                     THEN Append(@, [t |-> anom.tIdx, off |-> anom.off,
                                                     period |-> EstimatePeriod(
                                                        Reverse(anom.fetched),
                                                        Min(100, Len(anom.fetched) - 2)),
                                                     outcome |-> o])
                                     ELSE @]
    /\ UNCHANGED notAnom

\* results.append({...}) after the last offset of a target
AnomalyTargetEnd ==
    /\ anom.pc = "loop"
    /\ anom.tIdx <= Len(anom.targets)
    /\ anom.off = anom.targets[anom.tIdx].count
    /\ LET t == anom.targets[anom.tIdx] IN
       anom' = [anom EXCEPT
                  !.results = Append(@, [address |-> t.address, kind |-> t.kind,
                                         arrays |-> anom.cur]),
                  !.tIdx = @ + 1,
                  !.off = 0,
                  !.cur = NoArrays]
    /\ UNCHANGED notAnom

\* `return {"data": results}`
AnomalyReturn ==
    /\ anom.pc = "loop"
    /\ anom.tIdx > Len(anom.targets)
    /\ anom' = [anom EXCEPT !.pc = "returned", !.status = 200]
    /\ UNCHANGED notAnom

\* one handler was called with a request, over a database
AnomalyInit ==
    /\ NoActivity
    /\ clock = 1
    /\ glob = NoGlob
    /\ \E v \in {"zscore", "stl"}, b \in BOOLEAN, ts \in AnomTargetLists,
          w \in AnomWindows, ms \in AnomMinSamples, se \in SeriesChoices :
         /\ ms <= w
         /\ anom = [pc |-> "called", variant |-> v, backend |-> b, targets |-> ts,
                    window |-> w, minSamples |-> ms, series |-> se, gotLogger |-> FALSE,
                    tIdx |-> 0, off |-> 0, fetched |-> <<>>, cur |-> NoArrays,
                    results |-> <<>>, fits |-> <<>>, queries |-> 0, status |-> 0]

AnomalyNext ==
    \/ AnomalyEnter
    \/ AnomalyFetch
    \/ AnomalyPoint
    \/ AnomalyTargetEnd
    \/ AnomalyReturn

AnomalySpec == AnomalyInit /\ [][AnomalyNext]_vars

-----------------------------------------------------------------------------
(* Properties *)

Terminated(d) == pc[d] \in {"done", "failed", "cancelled"}

UpdateIdx == {i \in 1..Len(out) : out[i].type = "update"}
LastUpdate == out[CHOOSE i \in UpdateIdx : \A j \in UpdateIdx : j <= i]

\* the first message is a configure command that passes validation
ValidConfigure(m) ==
    /\ m.type = "configure"
    /\ m.hasConn
    /\ m.targets # <<>>
    /\ \A i \in 1..Len(m.targets) :
         m.targets[i].count \in 1..125 /\ m.targets[i].address >= 0
    /\ LET iv == IF m.interval = 0 THEN 100 ELSE m.interval
       IN iv > 5 /\ iv <= 6000

FirstSeen == sess.first.type # "none"

\* C1: at most one device read or write is in flight at any time; a read or
\* write is in the hands of the client only while its caller holds the session
\* lock, and the lock has at most one holder.
C1_OneInFlight ==
    /\ Cardinality(InFlight) <= 1
    /\ InFlight \subseteq inCS
    /\ Cardinality(inCS) <= 1
    /\ inCS # {} => locked

\* the poll duty queues for the lock while a write of the command duty is in flight
C1_Witness == pc["poll"] = "read_lock" /\ pc["cmd"] = "write_io" /\ inCS = {"cmd"}

\* C2: a session whose first message is not a valid configure command emits
\* exactly one error, no status and no update, never opens a DeviceSession and
\* ends closed.
C2_BadHandshake ==
    (FirstSeen /\ ~ValidConfigure(sess.first)) =>
        /\ phase = "Closed"
        /\ Len(out) = 1
        /\ out[1].type = "error"
        /\ devState = "never"
        /\ sess.connect = "none"
        /\ \A d \in Duties : pc[d] = "none"
        /\ wireOps = 0

\* a configure command whose interval fails validation was rejected
C2_Witness ==
    /\ sess.first.type = "configure"
    /\ sess.first.interval = 5
    /\ phase = "Closed"
    /\ Len(out) = 1

\* device registers after applying a sequence of writes in order
RECURSIVE ApplyAll(_, _)
ApplyAll(m, ws) == IF ws = <<>> THEN m ELSE ApplyAll(ApplyWrite(m, Head(ws)), Tail(ws))

\* C3: when write k of a command is the first to raise OperationFailure, writes
\* 1..k-1 were applied in order and stay applied, no write after k is issued,
\* exactly one error is emitted for the command and no ack.
C3_PartialWrite ==
    cmdg.failedAt > 0 =>
        /\ cmdg.applied = SubSeq(cWrites, 1, cmdg.failedAt - 1)
        /\ ApplyAll(mem, cmdg.applied) = mem
        /\ cmdg.issued = cmdg.failedAt
        /\ cmdg.errors = 1
        /\ cmdg.acks = 0
        /\ pc["cmd"] \notin {"write_io", "write_lock"}

\* the second of three writes failed after the first was applied
C3_Witness ==
    /\ cmdg.failedAt = 2
    /\ Len(cWrites) = 3
    /\ mem[<<"holding", 0>>] = 7
    /\ pc["cmd"] = "sent"

DutyErrorEmitted == sess.raisedAtWake /\ phase = "Closed"

\* C4 (as stated): when a duty terminates with an exception, the terminal error
\* is emitted before the DeviceSession is closed.
C4_ErrorBeforeClose == DutyErrorEmitted => sess.termDevState = "open"

\* C4 (amended): when a duty terminates with an exception, the DeviceSession is
\* closed first (tcp_session's finally) and the terminal error is emitted after
\* it: no terminal error is on the channel while the session is open.
C4_CloseBeforeError ==
    /\ DutyErrorEmitted => sess.termDevState = "closed"
    /\ phase = "ClosingErr" => (devState = "closed" /\ CountFrom("error", "session") = 0)
    /\ CountFrom("error", "session") > 0 => devState # "open"

\* a duty raised and the terminal error was emitted
C4_Witness ==
    /\ DutyErrorEmitted
    /\ CountFrom("error", "session") = 1
    /\ Raised # {}

\* C5 (as stated): a status message is emitted exactly once, and only after a
\* successful configure; no session contains two status messages.
C5_StatusOnce ==
    /\ CountType("status") <= 1
    /\ CountType("status") >= 1 => ValidConfigure(sess.first)
    /\ (FirstSeen /\ ValidConfigure(sess.first)) => CountType("status") >= 1

\* C5 (amended): status messages are emitted only after a successful configure;
\* the handshake emits exactly one and the poll duty emits exactly one more as
\* its first step, so a session carries at most two status messages, two once
\* the poll duty has run and one when connect failed.
C5_StatusTwice ==
    /\ CountType("status") <= 2
    /\ CountFrom("status", "handshake") + CountFrom("status", "poll") = CountType("status")
    /\ CountType("status") >= 1 => ValidConfigure(sess.first)
    /\ (FirstSeen /\ ValidConfigure(sess.first)) => CountFrom("status", "handshake") = 1
    /\ CountFrom("status", "poll") =
         (IF pc["poll"] \in {"none", "start"} THEN 0 ELSE 1)
    /\ sess.connect = "failed" => CountType("status") = 1

\* the session ended with both status messages on the channel
C5_Witness == CountType("status") = 2 /\ phase = "Closed"

\* C6: in a poll cycle where a read raises OperationFailure the poll duty emits
\* exactly one error, no update, appends nothing, issues no further read in the
\* cycle, and goes on to the inter-cycle wait instead of terminating.
C6_FailedCycle ==
    /\ [](cyc.failed =>
            /\ cyc.errors = 1
            /\ cyc.updates = 0
            /\ cyc.appends = 0
            /\ cyc.reads = cyc.readsAtFail
            /\ pc["poll"] \in {"send_error", "waiting", "done", "cancelled"})
    /\ [][pc["poll"] = "send_error" =>
            \/ pc'["poll"] \in {"send_error", "waiting", "cancelled"}
            \/ pc'["poll"] = "done" /\ stop]_vars
    /\ [][(pc["poll"] = "waiting" /\ cyc.failed /\ pc'["poll"] # "waiting") =>
            \/ pc'["poll"] \in {"read_io", "read_lock"} /\ cycles' = cycles + 1
            \/ pc'["poll"] = "cancelled"
            \/ pc'["poll"] = "done" /\ stop]_vars

\* after a cycle that failed at its first read, the next cycle is reading
C6_Witness ==
    /\ cycles = 2
    /\ CountFrom("error", "poll") = 1
    /\ CountType("update") = 0
    /\ Len(config.targets) = 2
    /\ pc["poll"] = "read_io"
    /\ store = <<>>

\* C7: in a poll cycle where every read succeeds the batch is appended with
\* source=monitor before exactly one update is emitted; the update carries the
\* timestamp of the appended rows and one entry per target, in configuration
\* order.
C7_AppendThenUpdate ==
    /\ pc["poll"] = "logging" => (cyc.updates = 0 /\ lastAppend.result = "pending")
    /\ pc["poll"] = "send_update" =>
         LET u == LastUpdate IN
         /\ ~cyc.failed
         /\ cyc.appends = 1
         /\ cyc.updates = 1
         /\ lastAppend.source = "monitor"
         /\ lastAppend.result \in {"skipped", "ok", "err"}
         /\ u.ts = lastAppend.ts
         /\ u.data = lastAppend.readings
         /\ \A j \in UpdateIdx : out[j].ts = u.ts => out[j] = u
         /\ Cardinality({j \in UpdateIdx : out[j].ts = u.ts}) = 1
         /\ Len(u.data) = Len(config.targets)
         /\ \A i \in 1..Len(u.data) :
              /\ u.data[i].address = config.targets[i].address
              /\ u.data[i].kind = config.targets[i].kind
              /\ Len(u.data[i].values) <= config.targets[i].count
         /\ lastAppend.result = "ok" =>
              \A i \in 1..Len(u.data) :
                u.data[i].kind \in logger.kinds =>
                  \A k \in 1..Len(u.data[i].values) :
                    \E r \in 1..Len(store) :
                      store[r] = Row(u.ts, "monitor", u.data[i].kind,
                                     u.data[i].address + k - 1, u.data[i].values[k])
         /\ \A r \in 1..Len(store) : store[r].source = "monitor"

\* an update was emitted after its two-target batch was written to the store
C7_Witness ==
    /\ pc["poll"] = "send_update"
    /\ lastAppend.result = "ok"
    /\ Len(config.targets) = 2
    /\ store # <<>>

\* C8: once the inbound stream of an Active session is exhausted the stop
\* condition is set, and under fair scheduling the poll duty eventually
\* terminates and the DeviceSession is eventually closed.
C8_DisconnectStops ==
    /\ [](sess.exhausted => stop)
    /\ sess.exhausted ~> (Terminated("poll") /\ devState = "closed")

\* the stream was exhausted, the poll duty left its loop and the session closed
C8_Witness ==
    /\ sess.exhausted
    /\ pc["poll"] = "done"
    /\ cycles >= 1
    /\ devState = "closed"
    /\ phase = "Closed"

\* C9: if connect fails after a valid configure the session emits exactly one
\* error, starts neither duty, emits no update, ack or pong, issues no device
\* operation and ends closed.
C9_ConnectFailure ==
    sess.connect = "failed" =>
        /\ phase = "Closed"
        /\ CountType("error") = 1
        /\ CountType("update") + CountType("ack") + CountType("pong") = 0
        /\ \A d \in Duties : pc[d] = "none"
        /\ wireOps = 0
        /\ devState = "never"

\* connect failed after a valid configure
C9_Witness ==
    /\ sess.connect = "failed"
    /\ ValidConfigure(sess.first)
    /\ phase = "Closed"
    /\ Len(out) = 2

\* C10: when a duty of an Active session terminates with an unhandled
\* exception, the stop condition is set, the other duty is cancelled, exactly
\* one terminal error is emitted, the DeviceSession is closed, and no update,
\* ack or pong follows the terminal error.
C10_DutyException ==
    /\ (phase \in {"ClosingErr", "Closed"} /\ sess.raisedAtWake) =>
         /\ stop
         /\ devState = "closed"
         /\ \A d \in Duties : Finished(d) \/ d \in cancelReq
         /\ sess.pendingAtWake \subseteq cancelReq
    /\ DutyErrorEmitted => CountFrom("error", "session") = 1
    /\ \A i \in 1..Len(out) :
         (out[i].src = "session" /\ out[i].type = "error") =>
            \A j \in (i + 1)..Len(out) : out[j].type \notin {"update", "ack", "pong"}

\* the poll duty raised while the command duty was running, which was cancelled
C10_Witness ==
    /\ DutyErrorEmitted
    /\ pc["poll"] = "failed"
    /\ pc["cmd"] = "cancelled"
    /\ CountFrom("error", "session") = 1

\* the value a register holds after v was written to it: a coil keeps bool(v)
Written(kind, v) == IF kind = "coil" THEN (IF v = 0 THEN 0 ELSE 1) ELSE v

\* C11: after any sequence of successful writes (scalar or list, holding or
\* coil) and with no other mutator, every value a read returns for an address
\* that a write covered is the value of the last write applied to that address
\* (for a coil, its truth value).
C11_ReadAfterWrite ==
    rest.op = "read" =>
        \A i \in 1..Len(rest.readings) :
            LET e == rest.readings[i] IN
            \A k \in 1..Len(e.values) :
                LET v == rest.lastWritten[<<e.kind, e.address + k - 1>>] IN
                v # -1 => e.values[k] = Written(e.kind, v)

\* after a scalar write, a coil write of 2 and an overlapping list write, a
\* read returned both registers and the coil
C11_Witness ==
    /\ rest.op = "read"
    /\ rest.status = 200
    /\ rest.requests = 3
    /\ Len(rest.body) = 2
    /\ rest.body[1].values = <<5, 6>>
    /\ rest.body[2].values = <<1>>
    /\ rest.lastWritten[<<"coil", 1>>] = 2

\* the batch of the current cycle is complete (it is being logged or was sent)
BatchComplete == pc["poll"] \in {"logging", "send_update"}

\* the update of a cycle that started after a write completed is on the channel
UpdateAfterWrite == pc["poll"] = "send_update" /\ cyc.seq0 >= 1

NoInbound == received = 0 /\ ~sess.exhausted

\* no read of the poll duty has failed or raised
ReadsSucceeded == CountFrom("error", "poll") = 0 /\ pc["poll"] # "failed"

\* an update for the first configured target is among the five messages that
\* follow the status message of the handshake
UpdateInFirstFive ==
    \E i \in 2..Min(6, Len(out)) :
        /\ out[i].type = "update"
        /\ out[i].data[1].address = config.targets[1].address

\* C13: after a successful configure, with a connected device whose reads
\* succeed and no inbound commands, the messages after the handshake status
\* are the poll duty's status and then an update whose first entry carries the
\* first configured target's address; under fair scheduling that update is
\* eventually emitted, so it is among the first five messages after the status.
C13_UpdateEarly ==
    /\ []((sess.connect = "ok" /\ received = 0 /\ ReadsSucceeded) =>
            /\ out[1].type = "status"
            /\ Len(out) >= 2 => (out[2].type = "status" /\ out[2].src = "poll")
            /\ Len(out) >= 3 => (out[3].type = "update" /\ UpdateInFirstFive))
    /\ (phase = "Active") ~>
          (UpdateInFirstFive \/ ~NoInbound \/ ~ReadsSucceeded)

\* the first message after the two status messages is the update of target
\* coil:1, with nothing received from the client
C13_Witness ==
    /\ NoInbound
    /\ ReadsSucceeded
    /\ phase = "Active"
    /\ Len(out) = 3
    /\ out[3].type = "update"
    /\ out[3].data[1].address = 1
    /\ config.targets = <<T_c1>>

\* the messages of the command duty, in the order they were put on the channel
CmdMsgs == SelectSeq(out, LAMBDA m : m.src = "cmd")

\* the write command being processed has not been answered
Unanswered == cmdg.kind = "write" /\ cmdg.acks + cmdg.errors = 0

\* C14: the command duty has answered every command it consumed with exactly
\* one message, except the write command it is processing; it waits for the
\* next command only when nothing is unanswered; the answer to the last
\* command is pong for ping, error for configure and for a malformed payload,
\* ack for a write whose operations all succeeded and error for a write with a
\* failed operation; answers are appended to the channel, so they are in
\* arrival order; ping, configure and malformed payloads issue no device
\* operation.
C14_OneAnswerEach ==
    /\ [](Len(CmdMsgs) = received - (IF Unanswered THEN 1 ELSE 0))
    /\ [](Unanswered => pc["cmd"] \in {"write_lock", "write_io", "failed", "cancelled"})
    /\ []((received >= 1 /\ ~Unanswered) =>
            LET a == CmdMsgs[Len(CmdMsgs)] IN
            /\ cmdg.kind = "ping" => a.type = "pong"
            /\ cmdg.kind = "configure" => a.type = "error"
            /\ cmdg.kind = "malformed" => a.type = "error"
            /\ cmdg.kind = "write" =>
                 /\ a.type \in {"ack", "error"}
                 /\ a.type = "ack" <=> (cmdg.failedAt = 0 /\ cmdg.applied = cWrites)
                 /\ a.type = "error" <=> cmdg.failedAt > 0)
    /\ [](cmdg.kind \in {"ping", "configure", "malformed"} => cmdg.issued = 0)
    /\ [][received' = received + 1 =>
            /\ pc["cmd"] = "recv"
            /\ ~Unanswered
            /\ cmdg'.kind \in {"ping", "configure", "malformed"} =>
                 /\ wireOps' = wireOps
                 /\ mem' = mem
                 /\ Len(out') = Len(out) + 1
                 /\ pc'["cmd"] = "sent"]_vars
    /\ [][\/ out' = out
          \/ Len(out') = Len(out) + 1 /\ SubSeq(out', 1, Len(out)) = out]_vars

\* a ping and then a successful write were answered by pong and ack
C14_Witness ==
    /\ received = 2
    /\ Len(CmdMsgs) = 2
    /\ CmdMsgs[1].type = "pong"
    /\ CmdMsgs[2].type = "ack"
    /\ cmdg.applied = <<W_h>>

\* the current command is a configure command and was answered
Reconfigured == cmdg.kind = "configure" /\ pc["cmd"] = "sent"

\* C15: the step that consumes a configure command in an Active session puts
\* one error of the command duty on the channel and changes neither the
\* configuration, the session state, the stop condition nor the DeviceSession;
\* the configuration stays what the handshake built from the first message,
\* and the DeviceSession is opened only while connecting, from never opened.
C15_ReconfigureRejected ==
    /\ [][(received' = received + 1 /\ cmdg'.kind = "configure") =>
            /\ phase = "Active" /\ phase' = "Active"
            /\ out' = Append(out, OutMsg("error", "cmd", 0, <<>>))
            /\ config' = config
            /\ devState' = devState
            /\ sess'.connect = sess.connect
            /\ stop' = stop
            /\ wireOps' = wireOps]_vars
    /\ []((FirstSeen /\ ValidConfigure(sess.first)) =>
            /\ config.targets = sess.first.targets
            /\ config.interval = IF sess.first.interval = 0 THEN 100
                                 ELSE sess.first.interval)
    /\ [][devState' # devState =>
            \/ devState = "never" /\ devState' = "open" /\ phase = "Connecting"
            \/ devState = "open" /\ devState' = "closed"]_vars

\* a configure command with other targets was rejected in an Active session
C15_Witness ==
    /\ Reconfigured
    /\ phase = "Active"
    /\ devState = "open"
    /\ config.targets = <<T_h0, T_c1>>
    /\ out[Len(out)] = OutMsg("error", "cmd", 0, <<>>)

\* this step puts an error of duty d on the channel (a failed read of a poll
\* cycle; a failed write, a malformed payload or a rejected configure command)
DutyError(d) ==
    /\ Len(out') = Len(out) + 1
    /\ out'[Len(out')].type = "error"
    /\ out'[Len(out')].src = d

\* C16: a step in which a duty reports a recoverable failure leaves the stop
\* condition, the session state and the DeviceSession as they were, cancels
\* nothing, and leaves the duty at the send of its error and the other duty
\* where it was; from there the poll duty can go on to its wait and the
\* command duty to its next inbound message, and they leave that point only
\* that way or by cancellation; the stop condition is set only on disconnect
\* or by the session after a duty raised, and a duty that raises reports
\* nothing itself.
C16_RecoverableFailure ==
    /\ [][DutyError("poll") =>
            /\ pc'["poll"] = "send_error" /\ pc'["cmd"] = pc["cmd"]
            /\ phase = "Active"
            /\ <<stop, phase, devState, cancelReq>>' = <<stop, phase, devState, cancelReq>>]_vars
    /\ [][DutyError("cmd") =>
            /\ pc'["cmd"] = "sent" /\ pc'["poll"] = pc["poll"]
            /\ phase = "Active"
            /\ <<stop, phase, devState, cancelReq>>' = <<stop, phase, devState, cancelReq>>]_vars
    /\ []((pc["poll"] = "send_error" /\ Running("poll")) => ENABLED PollBeginWait)
    /\ []((pc["poll"] = "waiting" /\ Running("poll") /\ EventsUsed < MaxEvents)
            => ENABLED PollWake)
    /\ []((pc["cmd"] = "sent" /\ Running("cmd")) => ENABLED CmdResume)
    /\ [][(pc["cmd"] = "sent" /\ pc'["cmd"] # "sent")
            => pc'["cmd"] \in {"recv", "cancelled"}]_vars
    /\ [][(pc["poll"] = "send_error" /\ pc'["poll"] # "send_error")
            => (pc'["poll"] \in {"waiting", "cancelled"} \/ (stop /\ pc'["poll"] = "done"))]_vars
    /\ [][stop' # stop =>
            \/ pc["cmd"] = "recv" /\ pc'["cmd"] = "done"
            \/ phase = "Active" /\ phase' \in {"ClosingErr", "ClosingOk"}]_vars
    /\ [][\A d \in Duties : (pc'[d] = "failed" /\ pc[d] # "failed") => out' = out]_vars
    /\ [](phase = "ClosingErr" => Raised # {})

\* after a failed read and a malformed payload the session is still Active: the
\* poll duty waits for its timer and the command duty answered the next message
C16_Witness ==
    /\ CountFrom("error", "poll") = 1
    /\ Len(CmdMsgs) = 2
    /\ CmdMsgs[1].type = "error"
    /\ CmdMsgs[2].type = "pong"
    /\ pc["poll"] = "waiting"
    /\ phase = "Active"
    /\ ~stop
    /\ devState = "open"

\* C17 (as stated): after the stop condition is signalled every duty ends by
\* observing it at its own suspension point; no duty is cancelled.
C17_Cooperative == cancelReq = {} /\ \A d \in Duties : pc[d] # "cancelled"

\* C17 (amended): the poll duty leaves its loop only by observing the stop
\* condition, at the loop head or at its timer wait; the command duty never
\* observes it: it ends only when the inbound stream is exhausted, and once the
\* stop condition is set it leaves its inbound read only by cancellation; a
\* duty is cancelled (task.cancel(), at whatever suspension point it is at)
\* only by the session after a duty raised, and when the stop condition is set
\* by a disconnect nothing is cancelled; under fair scheduling every duty
\* eventually terminates once the stop condition is set.
C17_StopThenCancel ==
    /\ [](pc["poll"] = "done" => stop)
    /\ [][(pc'["poll"] = "done" /\ pc["poll"] # "done") =>
            /\ stop
            /\ pc["poll"] \in {"send_status", "send_update", "send_error", "waiting"}]_vars
    /\ [](pc["cmd"] = "done" => sess.exhausted)
    /\ [][(stop /\ pc["cmd"] = "recv" /\ pc'["cmd"] # "recv")
            => pc'["cmd"] = "cancelled"]_vars
    /\ [](\A d \in Duties :
            (d \in cancelReq \/ pc[d] = "cancelled") =>
                (stop /\ sess.raisedAtWake /\ d \in sess.pendingAtWake))
    /\ [](~sess.raisedAtWake => cancelReq = {})
    /\ stop ~> (\A d \in Duties : Terminated(d))

\* the command duty raised and the poll duty was cancelled
C17_Witness ==
    /\ pc["poll"] = "cancelled"
    /\ pc["cmd"] = "failed"
    /\ stop
    /\ sess.pendingAtWake = {"poll"}

\* C18: every call of close() returns normally and leaves the transport
\* released.
C18_CloseNeverRaises ==
    /\ ~rest.closeRaised
    /\ rest.closeCalls > 0 => rest.transport = "closed"

\* the client reports a connected state: its flag, or a protocol with a transport
ReportsConnected(c) == c.connected \/ (c.protocol = "set" /\ c.transport = "set")

\* connect() raised ConnectFailure in the current one-shot call
ConnectFailed == rest.pc = "returned" /\ rest.transport = "never"

\* C19: connect() raises ConnectFailure exactly when the client does not report
\* a connected state after the attempt; a one-shot read whose connect fails
\* returns a failure (502) and no data, issues no device operation, does not
\* call the store and leaves its rows as they were.
C19_ConnectFails ==
    /\ rest.pc \notin {"idle", "connecting"} =>
         (rest.transport = "never" <=> ~ReportsConnected(rest.client))
    /\ rest.transport = "never" => rest.pc \in {"idle", "connecting", "returned"}
    /\ (ConnectFailed /\ rest.op = "read") =>
         /\ rest.status = 502
         /\ rest.body = <<>>
         /\ rest.readings = <<>>
         /\ rest.ops = 0
         /\ rest.logCalls = 0
         /\ rest.closeCalls = 0
         /\ logJob = NoJob
         /\ store = rest.store0

\* after an earlier read filled the store, a read whose client came back with
\* a protocol and no transport failed
C19_Witness ==
    /\ ConnectFailed
    /\ rest.op = "read"
    /\ rest.targets = <<T_h0, T_c1>>
    /\ rest.client = [connected |-> FALSE, protocol |-> "set", transport |-> "none"]
    /\ rest.status = 502
    /\ store # <<>>

\* C20 (as stated): the values of a successful read are as many as the target
\* asked for.
C20_LengthMatches ==
    rest.op = "read" =>
        \A i \in 1..Len(rest.readings) :
            Len(rest.readings[i].values) = rest.targets[i].count

\* C20 (amended): a successful read returns the first min(count, n) values of
\* the n values of the response: a longer response is cut to count values, a
\* shorter one is returned as it is, without validation; an exception response
\* and a response with neither registers nor bits raise OperationFailure and
\* give no values.
C20_TrimmedNotValidated ==
    rest.op = "read" =>
        /\ Len(rest.readings) <= Len(rest.resps)
        /\ \A i \in 1..Len(rest.resps) :
             LET r == rest.resps[i]
                 t == rest.targets[i]
             IN IF r.isError \/ r.shape = "none"
                THEN /\ i = Len(rest.resps)
                     /\ Len(rest.readings) = i - 1
                     /\ rest.opError = "operation"
                ELSE /\ Len(rest.readings) >= i
                     /\ LET v == rest.readings[i].values IN
                        /\ Len(v) = Min(t.count, Len(r.data))
                        /\ \A k \in 1..Len(v) : v[k] = r.data[k]
                        /\ rest.readings[i].address = t.address
                        /\ rest.readings[i].kind = t.kind

\* a read returned 200 with one register of the two asked for and with the one
\* coil of a padded response
C20_Witness ==
    /\ rest.op = "read"
    /\ rest.status = 200
    /\ rest.targets = <<T_h0, T_c1>>
    /\ Len(rest.body[1].values) = 1
    /\ Len(rest.resps[2].data) = 2
    /\ Len(rest.body[2].values) = 1

\* C21: each call of write() calls one client primitive, the one its kind and
\* the shape of its value select (holding scalar: write_register, holding list:
\* write_registers, coil scalar: write_coil, coil list: write_coils), and it
\* raises ModbusOperationError exactly when the client raised a ModbusException
\* or returned an exception response.
C21_WritePrimitive ==
    rest.op = "write" =>
        /\ Len(rest.prims) = rest.idx
        /\ rest.ops = rest.idx
        /\ Len(rest.wres) \in {rest.idx - 1, rest.idx}
        /\ (rest.pc = "io") <=> (rest.idx > 0 /\ Len(rest.wres) = rest.idx - 1)
        /\ \A i \in 1..Len(rest.prims) :
             LET w == rest.writes[i] IN
             rest.prims[i] =
                 CASE w.kind = "holding" /\ w.shape = "scalar" -> "write_register"
                   [] w.kind = "holding" /\ w.shape = "list" -> "write_registers"
                   [] w.kind = "coil" /\ w.shape = "scalar" -> "write_coil"
                   [] w.kind = "coil" /\ w.shape = "list" -> "write_coils"
        /\ \A i \in 1..Len(rest.wres) :
             (i = Len(rest.wres) /\ rest.opError = "operation")
                 <=> rest.wres[i] \in {"modbus", "errresp"}
        /\ \A i \in 1..Len(rest.wres) :
             (i < Len(rest.wres)) => rest.wres[i] = "ok"

\* a write of a coil scalar and a register list ended with an exception
\* response to the second operation
C21_Witness ==
    /\ rest.op = "write"
    /\ rest.writes = <<W_c2, W_hl>>
    /\ rest.prims = <<"write_coil", "write_registers">>
    /\ rest.wres = <<"ok", "errresp">>
    /\ rest.status = 502

\* the calls of log_readings whose batch was committed
Committed == {c \in Callers : /\ Call(c).op = "log"
                              /\ Call(c).pc = "returned"
                              /\ Call(c).recs # <<>>
                              /\ ~Call(c).raised}

\* the values of the readings before the j-th that have a kind of the allow-list
RECURSIVE ValuesBefore(_, _, _)
ValuesBefore(readings, kinds, j) ==
    IF j <= 1 THEN 0
    ELSE ValuesBefore(readings, kinds, j - 1)
         + (IF readings[j - 1].kind \in kinds THEN Len(readings[j - 1].values) ELSE 0)

\* the rows of the store that carry the timestamp ts
RowsAt(ts) == {r \in 1..Len(store) : store[r].timestamp = ts}

\* C22: with an enabled store, a committed append has persisted, for each of
\* its readings of an allowed kind with N values at address A, N rows, the
\* i-th (0-based) at address A+i with the i-th value, all with the source, the
\* timestamp and the connection of the call; its rows are one contiguous batch
\* in the order of the readings, and before the commit, or after a failure,
\* none of them is in the store.
C22_AppendRows ==
    \A c \in Callers :
        LET k == Call(c)
            n == ValuesBefore(k.readings, logger.kinds, Len(k.readings) + 1)
        IN k.op = "log" =>
            /\ c \in Committed =>
                 /\ logger.enabled
                 /\ n > 0
                 /\ RowsAt(k.ts) = (k.at + 1)..(k.at + n)
                 /\ \A j \in 1..Len(k.readings) :
                      k.readings[j].kind \in logger.kinds =>
                        \A i \in 0..(Len(k.readings[j].values) - 1) :
                          store[k.at + ValuesBefore(k.readings, logger.kinds, j) + i + 1]
                            = [timestamp |-> k.ts, source |-> k.source,
                               conn |-> Connection,
                               kind |-> k.readings[j].kind,
                               address |-> k.readings[j].address + i,
                               value |-> k.readings[j].values[i + 1]]
            /\ c \notin Committed => RowsAt(k.ts) = {}

\* the second of two appends committed the three rows of two overlapping
\* register readings
C22_Witness ==
    \E c \in Committed :
        /\ Call(c).at > 0
        /\ Len(Call(c).readings) = 2
        /\ Call(c).readings[1].values = <<7, 8>>
        /\ store[Call(c).at + 2].address = 1
        /\ store[Call(c).at + 2].value = 8
        /\ store[Call(c).at + 3].value = 9

\* the rows of a call with the kind kd, and the values its readings of that
\* kind have
RowsOfKind(ts, kd) == {r \in RowsAt(ts) : store[r].kind = kd}
RECURSIVE ValuesOfKind(_, _, _)
ValuesOfKind(readings, kd, j) ==
    IF j = 0 THEN 0
    ELSE ValuesOfKind(readings, kd, j - 1)
         + (IF readings[j].kind = kd THEN Len(readings[j].values) ELSE 0)

\* C23: a disabled store is never changed by an append (no row, no schema, the
\* call returns at once); no row of a kind outside the allow-list is ever
\* persisted, and a committed batch still holds every value of its readings
\* of the allowed kinds.
C23_NoOp ==
    /\ ~logger.enabled =>
         /\ store = <<>>
         /\ db.created = 0
         /\ \A c \in Callers : Call(c).pc \in {"idle", "returned"}
    /\ \A r \in 1..Len(store) : store[r].kind \in logger.kinds
    /\ \A c \in Committed :
         \A kd \in ALLOWED_KINDS :
            Cardinality(RowsOfKind(Call(c).ts, kd)) =
                IF kd \in logger.kinds
                THEN ValuesOfKind(Call(c).readings, kd, Len(Call(c).readings))
                ELSE 0

\* with the default allow-list, the append of a coil and an input reading
\* committed the input row alone
C23_Witness ==
    /\ logger.kinds = DEFAULT_KINDS
    /\ \E c \in Committed :
         /\ \E j \in 1..Len(Call(c).readings) : Call(c).readings[j].kind = "coil"
         /\ RowsOfKind(Call(c).ts, "input") # {}
         /\ RowsOfKind(Call(c).ts, "coil") = {}

\* the rows with the series key of the query c that were in the store when its
\* SELECT ran
MatchedBy(c) ==
    {r \in 1..Call(c).at : /\ store[r].conn = Call(c).key.conn
                              /\ store[r].kind = Call(c).key.kind
                              /\ store[r].address = Call(c).key.address}

\* C25: a query returns at most limit values; they are the values of rows with
\* the series key of the query, each row once, from the latest timestamp
\* backwards, and no matching row left out is later than a returned one; it
\* returns min(limit, matching rows) values, hence none when no row matches,
\* and none when the store is disabled (or the query failed).
C25_Recent ==
    \A c \in Callers :
        LET k == Call(c) IN
        (k.op = "fetch" /\ k.pc = "returned") =>
            /\ Len(k.result) <= k.limit
            /\ ~logger.enabled => k.result = <<>>
            /\ k.raised => k.result = <<>>
            /\ (logger.enabled /\ ~k.raised) =>
                 /\ Len(k.result) = Min(k.limit, Cardinality(MatchedBy(c)))
                 /\ Len(k.picked) = Len(k.result)
                 /\ \A j \in 1..Len(k.result) :
                      /\ k.picked[j] \in MatchedBy(c)
                      /\ k.result[j] = store[k.picked[j]].value
                      /\ \A i \in 1..Len(k.result) :
                           /\ i # j => k.picked[i] # k.picked[j]
                           /\ i < j => store[k.picked[i]].timestamp
                                         >= store[k.picked[j]].timestamp
                      /\ \A r \in MatchedBy(c) :
                           (\A i \in 1..Len(k.result) : k.picked[i] # r) =>
                              store[r].timestamp <= store[k.picked[j]].timestamp

\* a query with limit 3 found four rows of its series, written by two appends,
\* and returned three values, the two of the later append first
C25_Witness ==
    \E c \in Callers :
        /\ Call(c).op = "fetch"
        /\ Call(c).pc = "returned"
        /\ Cardinality(MatchedBy(c)) = 4
        /\ Len(Call(c).result) = 3
        /\ store[Call(c).picked[1]].timestamp > store[Call(c).picked[3]].timestamp

\* C26: the schema is created at most once however the threads of concurrent
\* first uses interleave; only the holder of the lock creates it, and a thread
\* runs its INSERT or SELECT only after the one creation was committed.
C26_InitOnce ==
    /\ db.created <= 1
    /\ db.initialized <=> db.created = 1
    /\ store # <<>> => db.created = 1
    /\ \A c \in Callers :
         /\ Call(c).pc = "creating" <=> db.initLock = c
         /\ Call(c).pc = "exec" => db.created = 1
         /\ Call(c).schemaAtExec \in {-1, 1}
         /\ (Call(c).pc = "returned" /\ Call(c).schemaAtExec = -1) =>
               (Call(c).picked = <<>> /\ RowsAt(Call(c).ts) = {})

\* three first uses at once: one thread created the schema and ran its
\* statement, a second passed the lock without creating, a third still waits
C26_Witness ==
    \E c1, c2, c3 \in Callers :
        /\ db.created = 1
        /\ Call(c1).pc = "returned" /\ Call(c1).schemaAtExec = 1
        /\ Call(c2).pc = "exec"
        /\ Call(c3).pc = "lockwait"

\* C27 (as stated): a one-shot read and a one-shot write that succeeded have
\* both called the store, with source "read".
C27_BothAppend ==
    /\ rest.status = 200 => rest.logCalls = 1
    /\ \A r \in 1..Len(store) : store[r].source = "read"

\* the values of the readings that have a kind the logger keeps
LoggableValues(readings) ==
    {<<i, k>> \in (1..Len(readings)) \X (1..MaxCount) :
        readings[i].kind \in logger.kinds /\ k <= Len(readings[i].values)}

\* C27 (amended): a one-shot read that succeeded has called the store once,
\* after its session was closed, with its readings, source "read" and one
\* timestamp, and when that write was committed the rows of its readings are
\* the rows added to the store; a one-shot read that failed and a one-shot
\* write, succeeded or not, never call the store and leave it as it was.
C27_ReadAppends ==
    /\ rest.op = "write" => (rest.logCalls = 0 /\ store = rest.store0 /\ logJob = NoJob)
    /\ (rest.op = "read" /\ rest.pc = "returned" /\ rest.status # 200) =>
           (rest.logCalls = 0 /\ store = rest.store0)
    /\ rest.logCalls > 0 => (rest.transport = "closed" /\ rest.closeCalls = 1)
    /\ (rest.op = "read" /\ rest.status = 200) =>
         LET new == SubSeq(store, Len(rest.store0) + 1, Len(store)) IN
         /\ rest.logCalls = 1
         /\ SubSeq(store, 1, Len(rest.store0)) = rest.store0
         /\ rest.logResult \in {"skipped", "ok", "err"}
         /\ rest.logResult = "skipped" <=>
               (~logger.enabled \/ LoggableValues(rest.body) = {})
         /\ rest.logResult # "ok" => new = <<>>
         /\ rest.logResult = "ok" =>
              /\ Len(new) = Cardinality(LoggableValues(rest.body))
              /\ \A p \in LoggableValues(rest.body) :
                   \E r \in 1..Len(new) :
                      new[r] = [timestamp |-> rest.logTs, source |-> "read",
                                conn |-> Connection,
                                kind |-> rest.body[p[1]].kind,
                                address |-> rest.body[p[1]].address + p[2] - 1,
                                value |-> rest.body[p[1]].values[p[2]]]
    /\ \A r \in 1..Len(store) : store[r].source = "read"

\* after a read filled the store, a write of three operations returned its
\* count and the store is as it was
C27_Witness ==
    /\ rest.op = "write"
    /\ rest.status = 200
    /\ rest.body = <<3>>
    /\ rest.logCalls = 0
    /\ store # <<>>
    /\ store = rest.store0

\* C24: a write of the store that failed is swallowed: the poll cycle whose
\* append failed emits its update, with the timestamp and the batch of the
\* append, and the poll duty goes on to its wait (unless it is cancelled
\* because the command duty raised); a query that failed returns an empty
\* sequence.
C24_BestEffort ==
    /\ []((pc["poll"] = "send_update" /\ lastAppend.result = "err") =>
             /\ cyc.updates = 1
             /\ LastUpdate = OutMsg("update", "poll", lastAppend.ts, lastAppend.readings))
    /\ [](\A c \in Callers :
             (Call(c).op = "fetch" /\ Call(c).raised) =>
                 (Call(c).pc = "returned" /\ Call(c).result = <<>>))
    /\ [][(pc["poll"] = "logging" /\ logJob.state = "err" /\ pc'["poll"] # "logging") =>
             \/ pc'["poll"] = "cancelled"
             \/ /\ pc'["poll"] = "send_update"
                /\ lastAppend'.result = "err"
                /\ out' = Append(out, OutMsg("update", "poll", pTs, payload))]_vars
    /\ [][(pc["poll"] = "send_update" /\ lastAppend.result = "err"
              /\ pc'["poll"] # "send_update") =>
             pc'["poll"] \in {"waiting", "done", "cancelled"}]_vars

\* after a cycle whose append was committed, the append of a later cycle
\* failed, its update was sent and the duty ended by the stop condition; then
\* a query of the series failed and returned no value although rows match
C24_Witness ==
    /\ phase = "Closed"
    /\ lastAppend.result = "err"
    /\ LastUpdate.ts = lastAppend.ts
    /\ pc["poll"] = "done"
    /\ store # <<>>
    /\ Call(1).op = "fetch"
    /\ Call(1).raised
    /\ Call(1).result = <<>>
    /\ Matching(store, Call(1).key) # {}

\* C28: compute_z_score returns None for score, mean and stdev together when
\* the window has fewer values than min_samples or fewer than 3, and a score,
\* a mean and a stdev together in every other case.
C28_DefinedTogether ==
    (scorer.fn = "zscore" /\ scorer.pc = "returned") =>
        LET r == scorer.result
            n == Len(scorer.values)
        IN IF n < scorer.minSamples \/ n < 3
           THEN r.score = None /\ r.mean = None /\ r.stdev = None
           ELSE /\ r.score # None /\ r.mean # None /\ r.stdev # None
                /\ r.score.sign \in {-1, 0, 1}
                /\ r.score.sq.den > 0
                /\ r.mean.den > 0
                /\ r.stdev.den > 0

\* a window of three equal values with min_samples 3 got a score, a mean and
\* a stdev
C28_Witness ==
    /\ scorer.fn = "zscore"
    /\ scorer.pc = "returned"
    /\ scorer.values = <<10, 10, 10>>
    /\ scorer.minSamples = 3
    /\ scorer.result.score # None
    /\ scorer.result.mean = Fraction(20, 2)

\* C29: for a window of at least max(min_samples, 3) values whose baseline
\* values[1:] is constant with value c, compute_z_score returns score 0.0,
\* mean c and stdev 0 whatever values[0] is; and for every window of that
\* length the mean and the stdev are the same whatever values[0] is.
C29_FlatBaseline ==
    (/\ scorer.fn = "zscore"
     /\ scorer.pc = "returned"
     /\ Len(scorer.values) >= Max(scorer.minSamples, 3)) =>
        LET r == scorer.result
            vs == scorer.values
        IN /\ (\A i \in 2..Len(vs) : vs[i] = vs[2]) =>
                /\ r.score = [sign |-> 0, sq |-> Fraction(0, 1)]
                /\ r.mean.num = vs[2] * r.mean.den
                /\ r.stdev.num = 0
           /\ \A v \in ZScoreValues :
                LET r2 == ComputeZScore(<<v>> \o Tail(vs), scorer.minSamples) IN
                /\ r2.mean = r.mean
                /\ r2.stdev = r.stdev

\* the window [1000, 10, 10, 10, 10] with min_samples 3: mean 10, stdev 0,
\* score 0.0
C29_Witness ==
    /\ scorer.fn = "zscore"
    /\ scorer.pc = "returned"
    /\ scorer.values = <<1000, 10, 10, 10, 10>>
    /\ scorer.minSamples = 3
    /\ scorer.result.score.sign = 0
    /\ scorer.result.mean = Fraction(40, 4)
    /\ scorer.result.stdev.num = 0

\* C30: the period estimate is 2 for a window of fewer than 4 values; for a
\* longer window it is at least 2 and at most max(2, min(100, len - 2)), and
\* it is max(2, k) for the smallest lag k of 1..min(100, len - 2) whose
\* autocorrelation coefficient is the largest (k = 1 for a constant window).
C30_Period ==
    (scorer.fn = "period" /\ scorer.pc = "returned") =>
        LET vs == scorer.values
            n == Len(vs)
            L == Min(100, n - 2)
            r == scorer.result
        IN /\ n < 4 => r = 2
           /\ n >= 4 =>
                /\ r >= 2
                /\ r <= Max(2, L)
                /\ \E k \in 1..L :
                     /\ \A j \in 1..L : ~Greater(Autocorr(vs, j), Autocorr(vs, k))
                     /\ \A j \in 1..(k - 1) : Greater(Autocorr(vs, k), Autocorr(vs, j))
                     /\ r = Max(2, k)
                     /\ (\A i \in 1..n : vs[i] = vs[1]) => k = 1

\* a window whose coefficient is largest at lag 3 got the period 3
C30_Witness ==
    /\ scorer.fn = "period"
    /\ scorer.pc = "returned"
    /\ Len(scorer.values) = 5
    /\ scorer.result = 3
    /\ Greater(Autocorr(scorer.values, 3), Autocorr(scorer.values, 1))
    /\ Greater(Autocorr(scorer.values, 3), Autocorr(scorer.values, 2))

\* C35: whenever the DeviceSession of a monitor session is closed no duty has
\* a device operation in flight, no duty holds the session lock, and no device
\* read or write is issued from then on.
C35_QuietAtClose ==
    /\ [](devState = "closed" =>
            /\ InFlight = {}
            /\ inCS = {}
            /\ ~locked)
    /\ [][devState = "closed" => wireOps' = wireOps]_vars

\* update and error messages of the poll duty, and what its current cycle has
\* sent and appended
PollReports == CountFrom("update", "poll") + CountFrom("error", "poll")
CycleReports == cyc.updates + cyc.errors

\* C36: the poll duty leaves its loop only from the loop head or from the
\* inter-cycle wait, never from the middle of a cycle; once the stop condition
\* is set no cycle starts, and a step that emits an update or error of the poll
\* duty or calls the store emits the first report, or makes the first append,
\* of the cycle that was in progress: at most one further report and one
\* further append; the cycle in progress is not abandoned.
C36_StopAtLoopHead ==
    /\ [][(pc'["poll"] = "done" /\ pc["poll"] # "done") =>
            /\ stop
            /\ pc["poll"] \in {"send_status", "send_update", "send_error", "waiting"}]_vars
    /\ [][(stop /\ pc["poll"] \in {"read_lock", "read_io", "logging"}
                /\ pc'["poll"] # pc["poll"]) =>
            pc'["poll"] \in {"read_lock", "read_io", "logging", "send_update",
                             "send_error", "failed", "cancelled"}]_vars
    /\ [][stop => (cycles' = cycles /\ cyc'.seq0 = cyc.seq0)]_vars
    /\ [][stop => /\ cyc'.updates >= cyc.updates
                  /\ cyc'.errors >= cyc.errors
                  /\ cyc'.appends >= cyc.appends]_vars
    /\ [](CycleReports <= 1 /\ cyc.appends <= 1)
    /\ [][(stop /\ PollReports' # PollReports) =>
            /\ PollReports' = PollReports + 1
            /\ CycleReports = 0
            /\ CycleReports' = 1]_vars
    /\ [][(stop /\ lastAppend' # lastAppend /\ lastAppend'.result \in {"pending", "skipped"}) =>
            /\ cyc.appends = 0
            /\ cyc'.appends = 1]_vars
    /\ []((stop /\ Running("poll") /\ pc["poll"] = "read_io") => ENABLED PollReadDone)
    /\ []((stop /\ Running("poll") /\ pc["poll"] = "logging" /\ logJob.state \in {"ok", "err"})
            => ENABLED PollLogDone)

\* the client disconnected during a cycle: the stop condition is set, the
\* cycle has made its append and its update is still to be sent
C36_Witness ==
    /\ stop
    /\ sess.exhausted
    /\ cancelReq = {}
    /\ pc["poll"] = "logging"
    /\ cyc.appends = 1
    /\ CycleReports = 0
    /\ cycles = 2

-----------------------------------------------------------------------------
(* The session lock under fair scheduling: a session whose handshake         *)
(* succeeded with two targets and whose client sends pings and write         *)
(* commands (the inbound messages that never reach session.write() are left  *)
(* out).  The event loop runs every duty that can run, the client returns    *)
(* from every operation, and a requested cancellation is delivered.          *)

LockFirstMessages == {Msg("configure", TRUE, 20, <<T_h0, T_c1>>, <<>>)}
LockMessages ==
    {Msg("ping", FALSE, 0, <<>>, <<>>),
     Msg("write", FALSE, 0, <<>>, <<W_h>>),
     Msg("write", FALSE, 0, <<>>, <<W_h, W_c, W_hl>>)}

LockNext ==
    \/ \E m \in LockFirstMessages : Handshake(m)
    \/ StartSession
    \/ ConnectDone
    \/ PollStep
    \/ CmdStep
    \/ \E m \in LockMessages : CmdReceive(m)
    \/ CmdDisconnect
    \/ WriteRecords
    \/ SessionWake
    \/ SessionReturn
    \/ \E d \in Duties : DutyCancelled(d)

LockSpec ==
    /\ Init
    /\ [][LockNext]_vars
    /\ WF_vars(PollStep)
    /\ WF_vars(CmdStep)
    /\ WF_vars(\E d \in Duties : DutyCancelled(d))

-----------------------------------------------------------------------------

LockWait(d) == pc[d] \in {"read_lock", "write_lock"}
Queued == {waiters[i] : i \in 1..Len(waiters)}

\* C38: the session lock is held only by a duty whose read or write is in the
\* hands of the client: the step in which an operation ends, by a response, by
\* an exception of the client or by the cancellation of the duty, releases it,
\* so no finished, failed or cancelled duty holds it or waits for it; the first
\* duty in the queue can take the lock as soon as it is free, and under fair
\* scheduling a duty that waits for the lock gets it, unless the session
\* cancels the duty first.
C38_LockReleased ==
    /\ [](inCS = InFlight /\ (locked <=> inCS # {}))
    /\ [](\A d \in Duties : LockWait(d) <=> d \in Queued)
    /\ [](\A d \in Duties : Terminated(d) => (d \notin inCS /\ d \notin Queued))
    /\ [][\A d \in Duties :
            (d \in InFlight /\ <<pc[d], wireOps>>' # <<pc[d], wireOps>>) =>
                (~locked' \/ (inCS' = {d} /\ pc'[d] = pc[d]))]_vars
    /\ [][\A d \in Duties :
            (d \in InFlight /\ pc'[d] \in {"failed", "cancelled", "send_error", "sent"}) =>
                (~locked' /\ inCS' = {})]_vars
    /\ []((~locked /\ waiters # <<>> /\ Head(waiters) = "poll" /\ Running("poll"))
            => ENABLED PollLockGranted)
    /\ []((~locked /\ waiters # <<>> /\ Head(waiters) = "cmd" /\ Running("cmd"))
            => ENABLED CmdLockGranted)
    /\ \A d \in Duties : LockWait(d) ~> (d \in inCS \/ pc[d] = "cancelled")

\* a read of the poll duty raised and released the lock, and the write of the
\* command duty that was waiting is in the hands of the client
C38_Witness ==
    /\ pc["poll"] = "send_error"
    /\ cyc.failed
    /\ pc["cmd"] = "write_io"
    /\ inCS = {"cmd"}
    /\ locked
    /\ waiters = <<>>

\* C39: the session lock is held for one device operation at a time: each
\* operation handed to the client is one acquisition, and the step in which a
\* read of a poll cycle or a write of a write command returns releases the
\* lock before the next read or write of the same duty asks for it; when the
\* other duty is waiting the next operation queues behind it, so the waiting
\* operation is applied between the two; the entries of a payload are in
\* target order, each read under a hold of its own.
C39_OneOpPerHold ==
    /\ [](Cardinality(InFlight) <= 1 /\ inCS = InFlight)
    /\ [][wireOps' # wireOps =>
            /\ wireOps' = wireOps + 1
            /\ Cardinality(inCS') = 1
            /\ (inCS = {} \/ (inCS' = inCS /\ waiters = <<>>))]_vars
    /\ [][(pc["poll"] = "read_io" /\ pIdx' = pIdx + 1) =>
            IF waiters # <<>>
            THEN /\ pc'["poll"] = "read_lock"
                 /\ ~locked'
                 /\ waiters' = Append(waiters, "poll")
            ELSE pc'["poll"] = "read_io" /\ inCS' = {"poll"}]_vars
    /\ [][(pc["cmd"] = "write_io" /\ cIdx' = cIdx + 1) =>
            IF waiters # <<>>
            THEN /\ pc'["cmd"] = "write_lock"
                 /\ ~locked'
                 /\ waiters' = Append(waiters, "cmd")
            ELSE pc'["cmd"] = "write_io" /\ inCS' = {"cmd"}]_vars
    /\ []((~locked /\ Len(waiters) = 2) =>
            /\ Head(waiters) = "cmd" => (ENABLED CmdLockGranted /\ ~ENABLED PollLockGranted)
            /\ Head(waiters) = "poll" => (ENABLED PollLockGranted /\ ~ENABLED CmdLockGranted))
    /\ [](\A i \in 1..Len(payload) :
            /\ payload[i].kind = config.targets[i].kind
            /\ payload[i].address = config.targets[i].address)

\* the first read of a cycle returned the registers as they were before any
\* write, a write of the command duty was then applied, and the second read of
\* the same cycle is in the hands of the client
C39_Witness ==
    /\ cycles = 1
    /\ pIdx = 2
    /\ pc["poll"] = "read_io"
    /\ payload = <<Entry(T_h0, <<0, 0>>)>>
    /\ Len(cmdg.applied) = 1
    /\ mem[<<"holding", 0>>] = 7
    /\ sess.writeSeq = 1

-----------------------------------------------------------------------------
(* data_logger.py: _resolve_db_path, _build_data_logger, get_data_logger,    *)
(* reset_data_logger; monitor.py: run_monitor_session; api.py: read_modbus   *)
(* and the anomaly handlers.  The process holds one _DATA_LOGGER; a logger   *)
(* writes to the file named after the second at which it was built.  The     *)
(* clock counts seconds; every row is of the series holding:0 of one         *)
(* connection, and its value is its number in the order of appends.          *)

\* seconds the clock can show
MaxSeconds == 3
\* the monitor sessions of the process
Sessions == {1, 2}
\* _resolve_db_path: one file name per second
Paths == 1..MaxSeconds

notGlob == <<phase, config, logger, devState, mem, locked, waiters, inCS, stop, pc,
             cancelReq, pIdx, payload, pTs, cWrites, cIdx, logJob, store, out,
             cycles, received, wireOps, cyc, cmdg, lastAppend, sess, rest, db, scorer,
             chan, anom>>

\* calls of log_readings and fetch_recent_values made so far
LoggerCalls == Len(glob.appended) + glob.queries

\* _resolve_db_path at second `now`
ResolveDbPath(now) == now

\* get_data_logger(): the path of _DATA_LOGGER, built now if there is none
GetDataLogger(g, now) == IF g.current = 0 THEN ResolveDbPath(now) ELSE g.current

\* reset_data_logger(): the path of a logger built now
ResetDataLogger(now) == ResolveDbPath(now)

\* log_readings on the logger of file p: one more row
AppendRow(g, p, by) ==
    LET v == Len(g.appended) + 1 IN
    [g EXCEPT !.files[p] = Append(@, v),
              !.appended = Append(@, [value |-> v, by |-> by])]

\* a second passes
ClockTick ==
    /\ clock < MaxSeconds
    /\ clock' = clock + 1
    /\ UNCHANGED <<glob, anom>>
    /\ UNCHANGED notGlob

\* run_monitor_session begins: `data_logger = reset_data_logger()`
MonitorStart(s) ==
    /\ glob.sess[s].state = "none"
    /\ glob' = [glob EXCEPT !.current = ResetDataLogger(clock),
                            !.sess[s] = [state |-> "active",
                                         path |-> ResetDataLogger(clock)]]
    /\ UNCHANGED <<clock, anom>>
    /\ UNCHANGED notGlob

\* the poll duty of session s logs a cycle on the logger the session was given
MonitorAppend(s) ==
    /\ glob.sess[s].state = "active"
    /\ LoggerCalls < MaxCalls
    /\ glob' = AppendRow(glob, glob.sess[s].path, s)
    /\ UNCHANGED <<clock, anom>>
    /\ UNCHANGED notGlob

\* run_monitor_session ends
MonitorEnd(s) ==
    /\ glob.sess[s].state = "active"
    /\ glob' = [glob EXCEPT !.sess[s].state = "ended"]
    /\ UNCHANGED <<clock, anom>>
    /\ UNCHANGED notGlob

\* read_modbus: `data_logger = get_data_logger()` and log_readings
OneShotAppend ==
    /\ LoggerCalls < MaxCalls
    /\ LET p == GetDataLogger(glob, clock) IN
       glob' = AppendRow([glob EXCEPT !.current = p], p, 0)
    /\ UNCHANGED <<clock, anom>>
    /\ UNCHANGED notGlob

\* an anomaly handler: get_data_logger() and fetch_recent_values with a window
\* that holds every row
AnomalyQuery ==
    /\ LoggerCalls < MaxCalls
    /\ LET p == GetDataLogger(glob, clock) IN
       glob' = [glob EXCEPT
                  !.current = p,
                  !.queries = @ + 1,
                  !.query = [done |-> TRUE,
                             values |-> Reverse(glob.files[p]),
                             before |-> glob.appended,
                             active |-> {s \in Sessions :
                                           glob.sess[s].state = "active"}]]
    /\ UNCHANGED <<clock, anom>>
    /\ UNCHANGED notGlob

\* a process that has built no logger, with no database file
LoggerInit ==
    /\ NoActivity
    /\ clock = 1
    /\ anom = NoAnom
    /\ glob = [current |-> 0,
               files |-> [p \in Paths |-> <<>>],
               sess |-> [s \in Sessions |-> [state |-> "none", path |-> 0]],
               appended |-> <<>>,
               queries |-> 0,
               query |-> [done |-> FALSE, values |-> <<>>, before |-> <<>>,
                          active |-> {}]]

LoggerNext ==
    \/ ClockTick
    \/ \E s \in Sessions : MonitorStart(s)
    \/ \E s \in Sessions : MonitorAppend(s)
    \/ \E s \in Sessions : MonitorEnd(s)
    \/ OneShotAppend
    \/ AnomalyQuery

LoggerSpec == LoggerInit /\ [][LoggerNext]_vars

-----------------------------------------------------------------------------
(* Properties of the exits of run_monitor_session *)

\* C40: a monitor session opens at most one DeviceSession, and never again
\* after it was closed; on every way out (the inbound stream ends, a duty
\* raises, close itself raises, the session task is cancelled) a session whose
\* connect succeeded has called close exactly once, before the function is
\* left; a session whose connect failed never calls close.
C40_OpenOnceCloseOnce ==
    /\ [][devState' # devState =>
            \/ devState = "never" /\ devState' = "open" /\ phase = "Connecting"
            \/ devState = "open" /\ devState' = "closed" /\ phase = "Active"]_vars
    /\ [][sess'.closeCalls # sess.closeCalls =>
            /\ sess'.closeCalls = sess.closeCalls + 1
            /\ devState = "open" /\ devState' = "closed"]_vars
    /\ [](sess.closeCalls <= 1)
    /\ []((devState = "open") <=> (phase = "Active"))
    /\ [](sess.connect = "failed" =>
            devState = "never" /\ sess.closeCalls = 0 /\ phase = "Closed")
    /\ [](phase \in {"ClosingOk", "ClosingErr", "Closed"} /\ sess.connect = "ok" =>
            devState = "closed" /\ sess.closeCalls = 1)
    /\ [](phase \notin {"ClosingOk", "ClosingErr", "Closed"} => sess.closeCalls = 0)

\* C40 witness: the session was cancelled while a write of the command duty was
\* in flight and has closed its DeviceSession once
C40_Witness ==
    /\ chan.raised = "cancelled"
    /\ phase = "Closed"
    /\ sess.connect = "ok"
    /\ sess.closeCalls = 1
    /\ devState = "closed"
    /\ pc["cmd"] = "write_io"

\* C37 as stated: no exception of a channel send ever leaves
\* run_monitor_session.
C37_NeverPropagates == chan.raised # "send"

\* C37: run_monitor_session turns a failure of connect, of a duty, of a send
\* inside a duty and of close into one terminal error message, after the
\* DeviceSession was closed if connect had succeeded, and returns normally when
\* the send of that message returns.  An exception leaves the function in two
\* cases only: the send of the terminal error message raises, which takes a
\* client that is gone, and the task of the session is cancelled; in both the
\* DeviceSession is closed if connect had succeeded.
C37_TerminalSendPropagates ==
    /\ [](chan.raised = "send" =>
            /\ chan.gone
            /\ phase = "Closed"
            /\ out # <<>>
            /\ out[Len(out)] = OutMsg("error", "session", 0, <<>>))
    /\ [](chan.raised # "none" => phase = "Closed")
    /\ [](phase = "Closed" /\ sess.connect = "ok" => devState = "closed")
    /\ [](CountFrom("error", "session") <= 1)
    /\ [](/\ phase = "Closed"
          /\ chan.raised # "cancelled"
          /\ (sess.connect = "failed" \/ sess.raisedAtWake)
          => CountFrom("error", "session") = 1)
    /\ [][chan'.raised # chan.raised =>
            /\ chan.raised = "none"
            /\ phase # "Closed" /\ phase' = "Closed"
            /\ devState' # "open"]_vars
    /\ [][\A d \in Duties : (pc[d] # "failed" /\ pc'[d] = "failed") =>
            (chan'.raised = chan.raised /\ phase' = phase /\ out' = out)]_vars
    /\ [](phase \in {"ClosingOk", "ClosingErr"} => ENABLED SessionReturn)

\* C37 witness: the client went away, the send of the poll duty raised, the
\* session closed the device and the send of the terminal error raised as well
C37_Witness ==
    /\ chan.raised = "send"
    /\ chan.gone
    /\ sess.connect = "ok"
    /\ sess.raisedAtWake
    /\ pc["poll"] = "failed"
    /\ cyc.updates = 1
    /\ devState = "closed"
    /\ sess.closeCalls = 1

-----------------------------------------------------------------------------
(* Properties of the anomaly handlers *)

\* the lists of a target, finished or in progress, and target t's point at i
ArrayNames == {"values", "z_scores", "sample_counts", "mean", "stdev"}
PointAt(arrays, i) ==
    [value |-> arrays.values[i], z |-> arrays.z_scores[i],
     count |-> arrays.sample_counts[i], mean |-> arrays.mean[i],
     stdev |-> arrays.stdev[i]]
\* the stored values the handler can have fetched for offset i - 1 of target t
Stored(t, i) == RecentValues(anom.series, t.kind, t.address + i - 1, anom.window)

\* the point describes the series of offset i - 1 of target t: no value and no
\* sample, or the newest stored value and the number of values in the window
DescribesAddress(p, t, i) ==
    \/ p.value = None /\ p.count = 0
    \/ /\ Stored(t, i) # <<>>
       /\ p.value = Val(Stored(t, i)[1])
       /\ p.count = Len(Stored(t, i))

\* C31: in both handlers the five lists of a target grow together, one entry
\* per offset, and have length target.count when the target's result is
\* appended; entry i describes address target.address + i - 1; at each entry
\* score, mean and stdev are all null or all non-null, and the sample count is
\* 0 exactly when the value is null; a returned response has one result per
\* target, in the order of the request.
C31_FiveArrays ==
    /\ anom.pc \in {"loop", "fetched"} =>
         \A f \in ArrayNames : Len(anom.cur[f]) = anom.off
    /\ anom.pc \in {"loop", "fetched"} /\ anom.tIdx <= Len(anom.targets) =>
         \A i \in 1..anom.off :
            DescribesAddress(PointAt(anom.cur, i), anom.targets[anom.tIdx], i)
    /\ Len(anom.results) <= Len(anom.targets)
    /\ anom.pc = "loop" => Len(anom.results) = anom.tIdx - 1
    /\ anom.pc = "returned" => Len(anom.results) = Len(anom.targets)
    /\ \A k \in 1..Len(anom.results) :
         LET r == anom.results[k]
             t == anom.targets[k]
         IN /\ r.address = t.address /\ r.kind = t.kind
            /\ \A f \in ArrayNames : Len(r.arrays[f]) = t.count
            /\ \A i \in 1..t.count :
                 LET p == PointAt(r.arrays, i) IN
                 /\ DescribesAddress(p, t, i)
                 /\ (p.z = None /\ p.mean = None /\ p.stdev = None)
                    \/ (p.z # None /\ p.mean # None /\ p.stdev # None)
                 /\ (p.count = 0) <=> (p.value = None)

\* C31 witness: a seasonal query has returned; at the first register the fit
\* failed, the second was scored, and the coil has fewer values than
\* min_samples
C31_Witness ==
    /\ anom.pc = "returned"
    /\ anom.variant = "stl"
    /\ anom.targets = <<T_h0, T_c1>>
    /\ Len(anom.fits) = 2
    /\ anom.fits[1].outcome = "raise"
    /\ anom.results[1].arrays.z_scores[1] = None
    /\ anom.results[1].arrays.z_scores[2] # None
    /\ anom.results[1].arrays.values = <<Val(9), Val(3)>>
    /\ anom.results[2].arrays.sample_counts = <<2>>
    /\ anom.results[2].arrays.z_scores = <<None>>

\* the lists that hold the point of fit f: those of the target in progress or
\* those of a finished target
ArraysOfFit(f) ==
    IF f.t <= Len(anom.results) THEN anom.results[f.t].arrays ELSE anom.cur

\* C32: in a seasonal query a fit that raises leaves score, mean and stdev of
\* its own point null while the point's value and sample count are reported;
\* every fit that returns gives its point a score; the handler goes on with
\* the next offset and target and never ends with the exception of a fit: it
\* raises only the 503 of a missing backend, and returns one result per target.
C32_FitFailureIsLocal ==
    /\ \A j \in 1..Len(anom.fits) :
         LET f == anom.fits[j]
             t == anom.targets[f.t]
             p == PointAt(ArraysOfFit(f), f.off + 1)
         IN /\ p.value = Val(Stored(t, f.off + 1)[1])
            /\ p.count = Len(Stored(t, f.off + 1))
            /\ p.count >= anom.minSamples
            /\ f.period >= 2
            /\ IF f.outcome = "raise"
               THEN p.z = None /\ p.mean = None /\ p.stdev = None
               ELSE p.z # None /\ p.mean # None /\ p.stdev # None
    /\ anom.fits # <<>> => anom.variant = "stl" /\ anom.backend
    /\ anom.status \in {0, 200, 503}
    /\ anom.pc = "raised" => anom.status = 503 /\ anom.fits = <<>>
    /\ anom.pc = "fetched" => ENABLED AnomalyPoint
    /\ anom.pc = "loop" => ENABLED (AnomalyFetch \/ AnomalyTargetEnd \/ AnomalyReturn)
    /\ anom.pc = "returned" =>
         /\ anom.status = 200
         /\ Len(anom.results) = Len(anom.targets)

\* C32 witness: a seasonal query has returned results for two targets; the fit
\* of the first register raised, the fit of the second register, made after
\* it, returned and the register has a score
C32_Witness ==
    /\ anom.pc = "returned"
    /\ anom.variant = "stl"
    /\ Len(anom.results) = 2
    /\ Len(anom.fits) = 3
    /\ anom.fits[1] = [t |-> 1, off |-> 0, period |-> 2, outcome |-> "raise"]
    /\ anom.fits[2].outcome = "values"
    /\ anom.fits[3].outcome = "raise"
    /\ anom.results[1].arrays.z_scores[1] = None
    /\ anom.results[1].arrays.sample_counts[1] = 5
    /\ anom.results[1].arrays.z_scores[2] # None
    /\ anom.results[2].arrays.z_scores[1] = None

\* C33: with no decomposition backend anomaly_stl raises the 503 as its first
\* step: it has not asked for the data logger, has made no store query and has
\* built no point and no result, and it never returns; the 503 is raised in no
\* other case; anomaly_zscore makes no such test and returns with or without
\* the backend.
C33_Unavailable ==
    /\ [](anom.variant = "stl" /\ ~anom.backend =>
            /\ anom.pc \in {"called", "raised"}
            /\ ~anom.gotLogger
            /\ anom.queries = 0
            /\ anom.cur = NoArrays
            /\ anom.results = <<>>
            /\ anom.status \in {0, 503})
    /\ [](anom.status = 503 <=> anom.pc = "raised")
    /\ [](anom.pc = "raised" => anom.variant = "stl" /\ ~anom.backend)
    /\ [][anom.pc = "called" /\ anom.variant = "stl" /\ ~anom.backend =>
            anom'.pc = "raised" /\ anom'.status = 503]_vars
    /\ [][anom.pc = "called" /\ (anom.variant = "zscore" \/ anom.backend) =>
            anom'.pc = "loop" /\ anom'.gotLogger]_vars
    /\ [](anom.pc = "called" => ENABLED AnomalyEnter)
    /\ [](anom.variant = "zscore" => anom.pc # "raised" /\ anom.status \in {0, 200})

\* C33 witness: a seasonal query for two targets with stored values was
\* answered with the 503
C33_Witness ==
    /\ anom.pc = "raised"
    /\ anom.status = 503
    /\ anom.variant = "stl"
    /\ ~anom.backend
    /\ anom.targets = <<T_h0, T_c1>>
    /\ anom.series[<<"holding", 0>>] = LongSeries
    /\ anom.queries = 0

-----------------------------------------------------------------------------
(* Properties of the process-wide data logger *)

RangeOf(s) == {s[i] : i \in 1..Len(s)}

\* C34: the values returned to an anomaly query hold every value appended
\* before the query, whoever appended it, and so the rows of every session
\* that is active at the time of the query.
C34_NothingHidden ==
    glob.query.done =>
        \A r \in RangeOf(glob.query.before) : r.value \in RangeOf(glob.query.values)

====
